---- MODULE Spec2Model ----
(***************************************************************************)
(* Model of server.py (trend-hunter-pro): the single-flight scan cycle     *)
(* scan_now, the request handlers that write the same tables, and the      *)
(* auto-scan worker.                                                       *)
(*                                                                         *)
(* Text is a sequence of one-character strings.  A date text is a record   *)
(* [fmt, at]: fmt "rfc" is an RFC-2822 date, "iso" the output of           *)
(* datetime.isoformat(), "none" a missing or unparsable text and "null"    *)
(* an SQL NULL.  Time is in seconds.                                       *)
(***************************************************************************)
EXTENDS Integers, Sequences, FiniteSets, TLC

(***************************************************************************)
(* Bounds of the model.                                                    *)
(***************************************************************************)
MaxScans == 2
MaxFaults == 2
MaxClock == 9
MaxRequests == 2

(***************************************************************************)
(* Program constants.                                                      *)
(***************************************************************************)
SCAN_MAX_ITEMS == 25
POLL_SECONDS == 8
DEFAULT_INTERVAL == 10
MIN_INTERVAL == 2
MAX_INTERVAL == 180

Max(a, b) == IF a >= b THEN a ELSE b
Min(a, b) == IF a <= b THEN a ELSE b

(***************************************************************************)
(* Text helpers: str.strip, str.lower, re.sub(r"\s+", " ", ...), `in`.     *)
(***************************************************************************)
IsSpace(c) == c = " "

LowerChar(c) ==
    CASE c = "A" -> "a"
      [] c = "B" -> "b"
      [] c = "C" -> "c"
      [] c = "E" -> "e"
      [] c = "R" -> "r"
      [] OTHER -> c

RECURSIVE LStrip(_)
LStrip(s) ==
    IF s = <<>> THEN <<>>
    ELSE IF IsSpace(Head(s)) THEN LStrip(Tail(s)) ELSE s

RECURSIVE RStrip(_)
RStrip(s) ==
    IF s = <<>> THEN <<>>
    ELSE IF IsSpace(s[Len(s)]) THEN RStrip(SubSeq(s, 1, Len(s) - 1)) ELSE s

Strip(s) == RStrip(LStrip(s))

RECURSIVE CollapseSpace(_)
CollapseSpace(s) ==
    IF s = <<>> THEN <<>>
    ELSE IF IsSpace(Head(s))
         THEN <<" ">> \o CollapseSpace(LStrip(s))
         ELSE <<Head(s)>> \o CollapseSpace(Tail(s))

Lower(s) == [i \in 1..Len(s) |-> LowerChar(s[i])]

normalize_text(text) == Lower(Strip(CollapseSpace(text)))

\* Python's `sub in s` on strings
Contains(s, sub) ==
    \E i \in 0..(Len(s) - Len(sub)) : SubSeq(s, i + 1, i + Len(sub)) = sub

\* Python's s.split(" ")
RECURSIVE Split(_, _)
Split(s, cur) ==
    IF s = <<>> THEN <<cur>>
    ELSE IF Head(s) = " " THEN <<cur>> \o Split(Tail(s), <<>>)
         ELSE Split(Tail(s), Append(cur, Head(s)))

(***************************************************************************)
(* Dates.                                                                  *)
(***************************************************************************)
NoDate == [fmt |-> "none", at |-> 0]
NullDate == [fmt |-> "null", at |-> 0]
RfcDate(t) == [fmt |-> "rfc", at |-> t]
isoformat(t) == [fmt |-> "iso", at |-> t]

\* mutant: the ISO text that fetch_google_news stores is parsed as well
parse_pub_date_ParsesIso(text, now) ==
    IF text.fmt \in {"rfc", "iso"} THEN text.at ELSE now

\* parsedate_to_datetime accepts RFC-2822 text only; everything else,
\* the ISO text included, raises and falls back to the current time.
parse_pub_date(text, now) ==
    IF text.fmt = "rfc" THEN text.at ELSE now

(***************************************************************************)
(* calc_trend_score                                                        *)
(***************************************************************************)
Recency(age) ==
    IF 7 * age >= 45 * 7200 THEN 0 ELSE (45 * 7200 - 7 * age) \div 7200

TrendMatches(t, title_norm) ==
    /\ t # <<>>
    /\ \/ Contains(title_norm, t)
       \/ \E j \in 1..Len(Split(t, <<>>)) :
            /\ Len(Split(t, <<>>)[j]) > 4
            /\ Contains(title_norm, Split(t, <<>>)[j])

\* mutant: the final score is not clamped
calc_trend_score_Unclamped(title, keyword, published_at, trends, keyword_density, now) ==
    LET pub_dt == parse_pub_date(published_at, now)
        age == Max(0, now - pub_dt)
        title_norm == normalize_text(title)
        keyword_norm == normalize_text(keyword)
        recency == Recency(age)
        kwBonus == IF keyword_norm # <<>> /\ Contains(title_norm, keyword_norm)
                   THEN 20 ELSE 0
        trend_hit == \E i \in 1..Len(trends) : TrendMatches(trends[i], title_norm)
        density_boost == Min(20, keyword_density * 2)
        raw == recency + kwBonus + (IF trend_hit THEN 25 ELSE 0) + density_boost
    IN  [score |-> raw, signal |-> IF trend_hit THEN 1 ELSE 0]

calc_trend_score(title, keyword, published_at, trends, keyword_density, now) ==
    LET pub_dt == parse_pub_date(published_at, now)
        age == Max(0, now - pub_dt)
        title_norm == normalize_text(title)
        keyword_norm == normalize_text(keyword)
        recency == Recency(age)
        kwBonus == IF keyword_norm # <<>> /\ Contains(title_norm, keyword_norm)
                   THEN 20 ELSE 0
        trend_hit == \E i \in 1..Len(trends) : TrendMatches(trends[i], title_norm)
        density_boost == Min(20, keyword_density * 2)
        raw == recency + kwBonus + (IF trend_hit THEN 25 ELSE 0) + density_boost
    IN  [score |-> Max(0, Min(100, raw)), signal |-> IF trend_hit THEN 1 ELSE 0]


(***************************************************************************)
(* Inputs: tracked keywords, feed documents and trending documents.        *)
(***************************************************************************)
K1 == <<"a", "b">>
K2 == <<"c", "c">>
RawKeywords == {K1, K2, <<" ">>}

T1 == <<"A", "b", " ", " ", "c", "a", "b", "c", "a">>
T2 == <<"C", "c", " ", "b">>

Links == {"l1", "l2"}

\* one <item> of a news document: findtext() of title, link, pubDate, source
EntryA(l) == [title |-> T1, link |-> l, pubDate |-> RfcDate(0), source |-> "s1"]
EntryB(l) == [title |-> T2, link |-> l, pubDate |-> NoDate, source |-> ""]
EntryNoTitle == [title |-> <<" ">>, link |-> "l1", pubDate |-> NoDate, source |-> "s1"]

NewsDocs ==
    { <<EntryA("l1")>>, <<EntryNoTitle, EntryB("l1"), EntryA("l2")>> }

\* <item> titles of a trending document
TrendDocs == { << <<"C", "a", "b", "c", "a", " ", "x">>, <<" ">> >> }

Take(s, n) == SubSeq(s, 1, Min(n, Len(s)))

RECURSIVE Reverse(_)
Reverse(s) == IF s = <<>> THEN <<>> ELSE Append(Reverse(Tail(s)), Head(s))

\* fetch_google_news on a document that was fetched and parsed
fetch_google_news(keyword, doc, max_items, now) ==
    LET Valid(e) == Strip(e.title) # <<>> /\ e.link # ""
        kept == SelectSeq(Take(doc, max_items), Valid)
    IN  [i \in 1..Len(kept) |->
            [title |-> Strip(kept[i].title),
             link |-> kept[i].link,
             source |-> IF kept[i].source = "" THEN "Google News" ELSE kept[i].source,
             published_at |-> isoformat(parse_pub_date(kept[i].pubDate, now)),
             keyword |-> keyword]]

\* fetch_google_trends on a document that was fetched and parsed
fetch_google_trends(doc, max_items) ==
    LET NonEmpty(t) == Strip(t) # <<>>
        kept == SelectSeq(Take(doc, max_items), NonEmpty)
    IN  [i \in 1..Len(kept) |-> normalize_text(Strip(kept[i]))]

TRENDS_MAX_ITEMS == 40


(***************************************************************************)
(* State.                                                                  *)
(***************************************************************************)
Procs == {"sched", "req"}

VARIABLES
    SCAN_LOCK,          \* TRUE while threading.Lock SCAN_LOCK is held
    IS_SCANNING,
    LAST_AUTO_SCAN_AT,  \* 0 is the initial 0.0
    keywords,           \* table keywords, in insertion order
    news,               \* table news, row id = index
    scans,              \* table scans, row id = index
    settings,           \* table settings
    tx,                 \* the open transaction of the scan's connection
    clock,              \* time.time()
    pc,                 \* where each thread is inside scan_now
    loc,                \* the locals of the scan_now call that holds the lock
    result,             \* who made the last scan_now call that ended, and its outcome
    acquired,           \* number of scan_now calls that took the lock
    openFailed,         \* number of those calls that raised before the try block
    faults,             \* number of database errors raised so far
    requests,           \* number of other requests served so far
    wakeAt              \* when auto_scan_worker's time.sleep returns

VARIABLES
    RELATED_CACHE,      \* key -> [ts, data]
    TRENDS_CACHE,       \* [ts, sig, data]
    call,               \* the cache call each request thread is inside
    upstream,           \* number of requests sent to the interest service
    stored,             \* per cache and key, the last completed store
    input,              \* the arguments drawn for a function application
    output              \* what the last call returned

auxVars == <<RELATED_CACHE, TRENDS_CACHE, call, upstream, stored, input, output>>

cacheVars == <<RELATED_CACHE, TRENDS_CACHE, call, upstream, stored>>

scanVars == <<SCAN_LOCK, IS_SCANNING, LAST_AUTO_SCAN_AT, keywords, news, scans,
              settings, tx, pc, loc, result, acquired, openFailed, faults,
              requests, wakeAt>>

vars == <<SCAN_LOCK, IS_SCANNING, LAST_AUTO_SCAN_AT, keywords, news, scans,
          settings, tx, clock, pc, loc, result, acquired, openFailed, faults,
          requests, wakeAt, auxVars>>

NoTx == [open |-> FALSE, news |-> <<>>, scans |-> <<>>]

NoLoc ==
    [scan_start |-> 0, scan_id |-> 0, keywords |-> <<>>, trends |-> <<>>,
     k |-> 1, gathered |-> <<>>, keyword_density |-> [x \in {} |-> 0],
     i |-> 1, new_articles |-> 0, total_processed |-> 0, exc |-> "",
     netCalls |-> 0, trendsFailed |-> FALSE, failedKw |-> {},
     newsBefore |-> 0, dbFault |-> FALSE]

NoResult ==
    [proc |-> "none", kind |-> "none", error |-> "", scan_id |-> 0,
     newArticles |-> 0, totalProcessed |-> 0]

\* the cache globals as the module defines them, and no call under way
NoCall == [fn |-> "none", pc |-> "idle"]
NoInput == [kind |-> "none"]
NoOutput == [kind |-> "none"]
EmptyTrendsData == [generated_at |-> 0, items |-> <<>>]
Readers == {"r1", "r2"}

CachesInit ==
    /\ RELATED_CACHE = [k \in {} |-> 0]
    /\ TRENDS_CACHE = [ts |-> 0, sig |-> <<>>, data |-> EmptyTrendsData]
    /\ call = [t \in Readers |-> NoCall]
    /\ upstream = 0
    /\ stored = [related |-> [k \in {} |-> 0], trends |-> [k \in {} |-> 0]]

\* init_db on a fresh database file, then main
ScanInit ==
    /\ SCAN_LOCK = FALSE
    /\ IS_SCANNING = FALSE
    /\ LAST_AUTO_SCAN_AT = 0
    /\ keywords = <<>>
    /\ news = <<>>
    /\ scans = <<>>
    /\ settings = [auto_scan |-> "0", interval_minutes |-> DEFAULT_INTERVAL,
                   last_scan_time |-> 0]
    /\ tx = NoTx
    /\ pc = [p \in Procs |-> "idle"]
    /\ loc = NoLoc
    /\ result = NoResult
    /\ acquired = 0
    /\ openFailed = 0
    /\ faults = 0
    /\ requests = 0
    /\ wakeAt = 0

Init ==
    /\ ScanInit
    /\ clock = 1
    /\ CachesInit
    /\ input = NoInput
    /\ output = NoOutput

(***************************************************************************)
(* Database helpers.                                                       *)
(***************************************************************************)
\* the first data-modifying statement after a commit opens a transaction
Begin == IF tx.open THEN tx ELSE [open |-> TRUE, news |-> news, scans |-> scans]

RowOfLink(table, link) == CHOOSE i \in DOMAIN table : table[i].link = link
HasLink(table, link) == \E i \in DOMAIN table : table[i].link = link

\* COALESCE(a, b) on the columns source and published_at
CoalesceText(a, b) == IF a # "NULL" THEN a ELSE b
CoalesceDate(a, b) == IF a.fmt # "null" THEN a ELSE b

\* UPDATE scans SET finished_at=?, success=0, error=? WHERE id=?
CloseFailed(table, id, now, err) ==
    [table EXCEPT ![id].finished_at = now, ![id].success = 0, ![id].error = err]

\* mutant: the two counts are bound in the wrong order
CloseSucceeded_Swapped(table, id, now, n, t) ==
    [table EXCEPT ![id].finished_at = now, ![id].new_articles = t,
                  ![id].total_articles = n, ![id].success = 1]

\* UPDATE scans SET finished_at=?, new_articles=?, total_articles=?, success=1 WHERE id=?
CloseSucceeded(table, id, now, n, t) ==
    [table EXCEPT ![id].finished_at = now, ![id].new_articles = n,
                  ![id].total_articles = t, ![id].success = 1]

\* INSERT INTO news(...) VALUES (..., 1, ?): is_new 1, saved by default 0
InsertNews(table, item, sc, now) ==
    Append(table,
           [title |-> item.title, link |-> item.link, source |-> item.source,
            published_at |-> item.published_at, keyword |-> item.keyword,
            trend_score |-> sc.score, trend_signal |-> sc.signal,
            is_new |-> 1, saved |-> 0, discovered_at |-> now])

\* mutant: the update keeps the larger of the stored and the new score
UpdateNews_KeepsMax(table, item, sc) ==
    [r \in DOMAIN table |->
        IF table[r].link = item.link
        THEN [table[r] EXCEPT
                !.trend_score = Max(table[r].trend_score, sc.score),
                !.trend_signal = sc.signal,
                !.keyword = item.keyword,
                !.source = CoalesceText(table[r].source, item.source),
                !.published_at = CoalesceDate(item.published_at, table[r].published_at)]
        ELSE table[r]]

\* mutant: the update marks the record new again
UpdateNews_ResetsIsNew(table, item, sc) ==
    [r \in DOMAIN table |->
        IF table[r].link = item.link
        THEN [table[r] EXCEPT
                !.trend_score = sc.score,
                !.trend_signal = sc.signal,
                !.keyword = item.keyword,
                !.is_new = 1,
                !.source = CoalesceText(table[r].source, item.source),
                !.published_at = CoalesceDate(item.published_at, table[r].published_at)]
        ELSE table[r]]

\* UPDATE news SET trend_score, trend_signal, keyword,
\*   source = COALESCE(source, ?), published_at = COALESCE(?, published_at)
\* WHERE link = ?
UpdateNews(table, item, sc) ==
    [r \in DOMAIN table |->
        IF table[r].link = item.link
        THEN [table[r] EXCEPT
                !.trend_score = sc.score,
                !.trend_signal = sc.signal,
                !.keyword = item.keyword,
                !.source = CoalesceText(table[r].source, item.source),
                !.published_at = CoalesceDate(item.published_at, table[r].published_at)]
        ELSE table[r]]

DensityGet(d, kw) == IF kw \in DOMAIN d THEN d[kw] ELSE 0
DensityPut(d, kw, n) == [x \in DOMAIN d \cup {kw} |-> IF x = kw THEN n ELSE d[x]]

(***************************************************************************)
(* scan_now                                                                *)
(***************************************************************************)
\* auto_scan_worker calls scan_now only when the setting is on and the
\* interval has elapsed; a request thread calls it on POST /api/scan
MayInvoke(p) ==
    p = "sched" =>
        /\ clock >= wakeAt
        /\ settings.auto_scan = "1"
        /\ \/ LAST_AUTO_SCAN_AT = 0
           \/ clock - LAST_AUTO_SCAN_AT >=
                Max(MIN_INTERVAL, Min(settings.interval_minutes, MAX_INTERVAL)) * 60

\* auto_scan_worker sleeps POLL_SECONDS after each pass of its loop, also
\* when scan_now raised
Sleep(p) == wakeAt' = IF p = "sched" THEN clock + POLL_SECONDS ELSE wakeAt

\* the finally block and the return (or the propagating exception)
Finally(p, kind) ==
    /\ IS_SCANNING' = FALSE
    /\ SCAN_LOCK' = FALSE
    /\ pc' = [pc EXCEPT ![p] = "idle"]
    /\ result' = [proc |-> p, kind |-> kind, error |-> loc.exc,
                   scan_id |-> loc.scan_id,
                   newArticles |-> loc.new_articles,
                   totalProcessed |-> loc.total_processed]
    /\ loc' = NoLoc
    /\ Sleep(p)

\* an exception inside the try block reaches `except Exception as exc`
Raise(p) ==
    /\ faults < MaxFaults
    /\ faults' = faults + 1
    /\ pc' = [pc EXCEPT ![p] = "except"]

\* mutant: the acquisition never fails (the lock is not consulted)
TryAcquire_AlwaysSucceeds == TRUE

\* SCAN_LOCK.acquire(blocking=False): TRUE when the lock was free
TryAcquire == ~SCAN_LOCK

\* mutant: the audit entry is written before the lock is tried
Busy_WritesAudit(p) ==
    /\ pc[p] = "idle"
    /\ MayInvoke(p)
    /\ ~TryAcquire
    /\ Len(scans) < MaxScans
    /\ scans' = Append(scans, [started_at |-> clock, finished_at |-> 0,
                               new_articles |-> 0, total_articles |-> 0,
                               success |-> 1, error |-> ""])
    /\ result' = [NoResult EXCEPT !.proc = p, !.kind = "busy"]
    /\ UNCHANGED <<SCAN_LOCK, IS_SCANNING, LAST_AUTO_SCAN_AT, keywords, news,
                   settings, tx, clock, pc, loc, acquired, openFailed, faults,
                   requests>>
    /\ Sleep(p)
    /\ UNCHANGED auxVars

\* SCAN_LOCK.acquire(blocking=False) fails
Busy(p) ==
    /\ pc[p] = "idle"
    /\ MayInvoke(p)
    /\ ~TryAcquire
    /\ result' = [NoResult EXCEPT !.proc = p, !.kind = "busy"]
    /\ UNCHANGED <<SCAN_LOCK, IS_SCANNING, LAST_AUTO_SCAN_AT, keywords, news,
                   scans, settings, tx, clock, pc, loc, acquired, openFailed, faults, requests>>
    /\ Sleep(p)
    /\ UNCHANGED auxVars

\* SCAN_LOCK.acquire(blocking=False) succeeds; IS_SCANNING = True; now_iso()
Acquire(p) ==
    /\ pc[p] = "idle"
    /\ MayInvoke(p)
    /\ TryAcquire
    /\ acquired < MaxScans
    /\ SCAN_LOCK' = TRUE
    /\ IS_SCANNING' = TRUE
    /\ acquired' = acquired + 1
    /\ pc' = [pc EXCEPT ![p] = "open"]
    /\ loc' = [NoLoc EXCEPT !.scan_start = clock, !.newsBefore = Len(news)]
    /\ UNCHANGED <<LAST_AUTO_SCAN_AT, keywords, news, scans, settings, tx,
                   clock, result, openFailed, faults, requests>>
    /\ UNCHANGED <<wakeAt, auxVars>>

\* get_conn, INSERT INTO scans(started_at), lastrowid, commit
Open(p) ==
    /\ pc[p] = "open"
    /\ scans' = Append(scans, [started_at |-> loc.scan_start, finished_at |-> 0,
                               new_articles |-> 0, total_articles |-> 0,
                               success |-> 1, error |-> ""])
    /\ loc' = [loc EXCEPT !.scan_id = Len(scans) + 1]
    /\ pc' = [pc EXCEPT ![p] = "load"]
    /\ UNCHANGED <<SCAN_LOCK, IS_SCANNING, LAST_AUTO_SCAN_AT, keywords, news,
                   settings, tx, clock, result, acquired, openFailed, faults, requests>>
    /\ UNCHANGED <<wakeAt, auxVars>>

\* the same statements raise: they are outside the try block, so the
\* exception leaves scan_now without running the finally block
OpenFault(p) ==
    /\ pc[p] = "open"
    /\ faults < MaxFaults
    /\ faults' = faults + 1
    /\ pc' = [pc EXCEPT ![p] = "idle"]
    /\ result' = [NoResult EXCEPT !.proc = p, !.kind = "raised"]
    /\ loc' = NoLoc
    /\ openFailed' = openFailed + 1
    /\ UNCHANGED <<SCAN_LOCK, IS_SCANNING, LAST_AUTO_SCAN_AT, keywords, news,
                   scans, settings, tx, clock, acquired, requests>>
    /\ Sleep(p)
    /\ UNCHANGED auxVars

\* mutant: the empty list is not rejected
AfterLoad_NoCheck(kws) == "trends"

\* `if not keywords:` chooses between the early return and the fetches
AfterLoad(kws) == IF kws = <<>> THEN "empty" ELSE "trends"

\* SELECT keyword FROM keywords ORDER BY created_at DESC
LoadKeywords(p) ==
    /\ pc[p] = "load"
    /\ loc' = [loc EXCEPT !.keywords = Reverse(keywords)]
    /\ pc' = [pc EXCEPT ![p] = AfterLoad(Reverse(keywords))]
    /\ UNCHANGED <<SCAN_LOCK, IS_SCANNING, LAST_AUTO_SCAN_AT, keywords, news,
                   scans, settings, tx, clock, result, acquired, openFailed, faults, requests>>
    /\ UNCHANGED <<wakeAt, auxVars>>

LoadKeywordsFault(p) ==
    /\ pc[p] = "load"
    /\ Raise(p)
    /\ loc' = [loc EXCEPT !.exc = "db", !.dbFault = TRUE]
    /\ UNCHANGED <<SCAN_LOCK, IS_SCANNING, LAST_AUTO_SCAN_AT, keywords, news,
                   scans, settings, tx, clock, result, acquired, openFailed, requests>>
    /\ UNCHANGED <<wakeAt, auxVars>>

\* if not keywords: UPDATE scans ..., commit, return, finally
CloseEmpty(p) ==
    /\ pc[p] = "empty"
    /\ scans' = CloseFailed(scans, loc.scan_id, clock, "Anahtar kelime yok")
    /\ Finally(p, "nokeywords")
    /\ UNCHANGED <<LAST_AUTO_SCAN_AT, keywords, news, settings, tx, clock,
                   acquired, openFailed, faults, requests>>
    /\ UNCHANGED auxVars

CloseEmptyFault(p) ==
    /\ pc[p] = "empty"
    /\ Raise(p)
    /\ loc' = [loc EXCEPT !.exc = "db", !.dbFault = TRUE]
    /\ UNCHANGED <<SCAN_LOCK, IS_SCANNING, LAST_AUTO_SCAN_AT, keywords, news,
                   scans, settings, tx, clock, result, acquired, openFailed, requests>>
    /\ UNCHANGED <<wakeAt, auxVars>>

\* trends = fetch_google_trends(), or [] when it raises
FetchTrends(p) ==
    /\ pc[p] = "trends"
    /\ \/ \E doc \in TrendDocs :
            loc' = [loc EXCEPT !.trends = fetch_google_trends(doc, TRENDS_MAX_ITEMS),
                               !.netCalls = loc.netCalls + 1]
       \/ loc' = [loc EXCEPT !.trends = <<>>, !.trendsFailed = TRUE,
                              !.netCalls = loc.netCalls + 1]
    /\ pc' = [pc EXCEPT ![p] = "news"]
    /\ UNCHANGED <<SCAN_LOCK, IS_SCANNING, LAST_AUTO_SCAN_AT, keywords, news,
                   scans, settings, tx, clock, result, acquired, openFailed, faults, requests>>
    /\ UNCHANGED <<wakeAt, auxVars>>

\* mutant: gathered is replaced by the keyword's items instead of extended
GatherInto_Replaces(items, failed) ==
    LET kw == loc.keywords[loc.k]
    IN  [loc EXCEPT !.gathered = items,
                    !.keyword_density = DensityPut(loc.keyword_density, kw, Len(items)),
                    !.k = loc.k + 1,
                    !.netCalls = loc.netCalls + 1,
                    !.failedKw = IF failed THEN loc.failedKw \cup {kw} ELSE loc.failedKw]

\* one iteration of `for kw in keywords`
GatherInto(items, failed) ==
    LET kw == loc.keywords[loc.k]
    IN  [loc EXCEPT !.gathered = loc.gathered \o items,
                    !.keyword_density = DensityPut(loc.keyword_density, kw, Len(items)),
                    !.k = loc.k + 1,
                    !.netCalls = loc.netCalls + 1,
                    !.failedKw = IF failed THEN loc.failedKw \cup {kw} ELSE loc.failedKw]

FetchNews(p) ==
    /\ pc[p] = "news"
    /\ loc.k <= Len(loc.keywords)
    /\ \/ \E doc \in NewsDocs :
            loc' = GatherInto(fetch_google_news(loc.keywords[loc.k], doc,
                                                SCAN_MAX_ITEMS, clock), FALSE)
       \/ loc' = GatherInto(<<>>, TRUE)
    /\ pc' = [pc EXCEPT ![p] = IF loc.k = Len(loc.keywords) THEN "process" ELSE "news"]
    /\ UNCHANGED <<SCAN_LOCK, IS_SCANNING, LAST_AUTO_SCAN_AT, keywords, news,
                   scans, settings, tx, clock, result, acquired, openFailed, faults, requests>>
    /\ UNCHANGED <<wakeAt, auxVars>>


\* mutant: new_articles is incremented for every candidate, stored or not
ProcessItem_CountsUpdates(p) ==
    /\ pc[p] = "process"
    /\ loc.i <= Len(loc.gathered)
    /\ LET item == loc.gathered[loc.i]
           sc == calc_trend_score(item.title, item.keyword, item.published_at,
                                  loc.trends,
                                  DensityGet(loc.keyword_density, item.keyword),
                                  clock)
       IN  /\ news' = IF HasLink(news, item.link)
                      THEN UpdateNews(news, item, sc)
                      ELSE InsertNews(news, item, sc, clock)
           /\ loc' = [loc EXCEPT !.i = loc.i + 1,
                                 !.total_processed = loc.total_processed + 1,
                                 !.new_articles = loc.new_articles + 1]
    /\ tx' = Begin
    /\ UNCHANGED <<SCAN_LOCK, IS_SCANNING, LAST_AUTO_SCAN_AT, keywords, scans,
                   settings, clock, pc, result, acquired, openFailed, faults, requests>>
    /\ UNCHANGED <<wakeAt, auxVars>>

\* one iteration of `for item in gathered`: score, INSERT, and on
\* sqlite3.IntegrityError (the link is already stored) the UPDATE
ProcessItem(p) ==
    /\ pc[p] = "process"
    /\ loc.i <= Len(loc.gathered)
    /\ LET item == loc.gathered[loc.i]
           sc == calc_trend_score(item.title, item.keyword, item.published_at,
                                  loc.trends,
                                  DensityGet(loc.keyword_density, item.keyword),
                                  clock)
       IN  IF HasLink(news, item.link)
           THEN /\ news' = UpdateNews(news, item, sc)
                /\ loc' = [loc EXCEPT !.i = loc.i + 1,
                                      !.total_processed = loc.total_processed + 1]
           ELSE /\ news' = InsertNews(news, item, sc, clock)
                /\ loc' = [loc EXCEPT !.i = loc.i + 1,
                                      !.total_processed = loc.total_processed + 1,
                                      !.new_articles = loc.new_articles + 1]
    /\ tx' = Begin
    /\ UNCHANGED <<SCAN_LOCK, IS_SCANNING, LAST_AUTO_SCAN_AT, keywords, scans,
                   settings, clock, pc, result, acquired, openFailed, faults, requests>>
    /\ UNCHANGED <<wakeAt, auxVars>>

\* the INSERT or the UPDATE raises some other database error
ProcessItemFault(p) ==
    /\ pc[p] = "process"
    /\ loc.i <= Len(loc.gathered)
    /\ Raise(p)
    /\ loc' = [loc EXCEPT !.total_processed = loc.total_processed + 1,
                          !.exc = "db", !.dbFault = TRUE]
    /\ UNCHANGED <<SCAN_LOCK, IS_SCANNING, LAST_AUTO_SCAN_AT, keywords, news,
                   scans, settings, tx, clock, result, acquired, openFailed, requests>>
    /\ UNCHANGED <<wakeAt, auxVars>>

\* UPDATE scans SET finished_at, new_articles, total_articles, success=1; commit
Finish(p) ==
    /\ pc[p] = "process"
    /\ loc.i > Len(loc.gathered)
    /\ scans' = CloseSucceeded(scans, loc.scan_id, clock, loc.new_articles,
                               loc.total_processed)
    /\ tx' = NoTx
    /\ pc' = [pc EXCEPT ![p] = "bookkeep"]
    /\ UNCHANGED <<SCAN_LOCK, IS_SCANNING, LAST_AUTO_SCAN_AT, keywords, news,
                   settings, clock, loc, result, acquired, openFailed, faults, requests>>
    /\ UNCHANGED <<wakeAt, auxVars>>

\* the UPDATE raises (nothing written), or the commit raises (the UPDATE
\* stays pending in the open transaction)
FinishFault(p, atCommit) ==
    /\ pc[p] = "process"
    /\ loc.i > Len(loc.gathered)
    /\ Raise(p)
    /\ loc' = [loc EXCEPT !.exc = "db", !.dbFault = TRUE]
    /\ IF atCommit
       THEN /\ scans' = CloseSucceeded(scans, loc.scan_id, clock,
                                       loc.new_articles, loc.total_processed)
            /\ tx' = Begin
       ELSE UNCHANGED <<scans, tx>>
    /\ UNCHANGED <<SCAN_LOCK, IS_SCANNING, LAST_AUTO_SCAN_AT, keywords, news,
                   settings, clock, result, acquired, openFailed, requests>>
    /\ UNCHANGED <<wakeAt, auxVars>>

\* set_setting("last_scan_time"), LAST_AUTO_SCAN_AT = time.time(),
\* SELECT COUNT(*), return, finally
Bookkeep(p) ==
    /\ pc[p] = "bookkeep"
    /\ settings' = [settings EXCEPT !.last_scan_time = clock]
    /\ LAST_AUTO_SCAN_AT' = clock
    /\ Finally(p, "ok")
    /\ UNCHANGED <<keywords, news, scans, tx, clock, acquired, openFailed, faults, requests>>
    /\ UNCHANGED auxVars

\* set_setting raises (nothing written), or the SELECT COUNT(*) raises
BookkeepFault(p, atCount) ==
    /\ pc[p] = "bookkeep"
    /\ Raise(p)
    /\ loc' = [loc EXCEPT !.exc = "db", !.dbFault = TRUE]
    /\ IF atCount
       THEN /\ settings' = [settings EXCEPT !.last_scan_time = clock]
            /\ LAST_AUTO_SCAN_AT' = clock
       ELSE UNCHANGED <<settings, LAST_AUTO_SCAN_AT>>
    /\ UNCHANGED <<SCAN_LOCK, IS_SCANNING, keywords, news, scans, tx, clock,
                   result, acquired, openFailed, requests>>
    /\ UNCHANGED <<wakeAt, auxVars>>

\* mutant: the handler closes the entry but gives up the open transaction
\* of the candidates instead of committing it
Except_RollsBack(p) ==
    /\ pc[p] = "except"
    /\ news' = IF tx.open THEN tx.news ELSE news
    /\ scans' = CloseFailed(scans, loc.scan_id, clock, loc.exc)
    /\ tx' = NoTx
    /\ Finally(p, "error")
    /\ UNCHANGED <<LAST_AUTO_SCAN_AT, keywords, settings, clock,
                   acquired, openFailed, faults, requests>>
    /\ UNCHANGED auxVars

\* except Exception as exc: UPDATE scans ... success=0, error=str(exc);
\* commit; return; finally
Except(p) ==
    /\ pc[p] = "except"
    /\ scans' = CloseFailed(scans, loc.scan_id, clock, loc.exc)
    /\ tx' = NoTx
    /\ Finally(p, "error")
    /\ UNCHANGED <<LAST_AUTO_SCAN_AT, keywords, news, settings, clock,
                   acquired, openFailed, faults, requests>>
    /\ UNCHANGED auxVars

\* the handler's own UPDATE or commit raises: finally closes the
\* connection, which rolls the open transaction back
ExceptFault(p) ==
    /\ pc[p] = "except"
    /\ faults < MaxFaults
    /\ faults' = faults + 1
    /\ news' = IF tx.open THEN tx.news ELSE news
    /\ scans' = IF tx.open THEN tx.scans ELSE scans
    /\ tx' = NoTx
    /\ Finally(p, "raised")
    /\ UNCHANGED <<LAST_AUTO_SCAN_AT, keywords, settings, clock, acquired, openFailed, requests>>
    /\ UNCHANGED auxVars

(***************************************************************************)
(* The other request handlers that write the tables.  Each runs one        *)
(* transaction of its own connection, which SQLite admits only while no    *)
(* other connection has a transaction open.                                *)
(***************************************************************************)
Served ==
    /\ ~tx.open
    /\ requests < MaxRequests
    /\ requests' = requests + 1

\* POST /api/keywords
AddKeyword(raw) ==
    /\ Served
    /\ Strip(raw) # <<>>
    /\ \A i \in DOMAIN keywords : keywords[i] # Strip(raw)
    /\ keywords' = Append(keywords, Strip(raw))
    /\ UNCHANGED <<SCAN_LOCK, IS_SCANNING, LAST_AUTO_SCAN_AT, news, scans,
                   settings, tx, clock, pc, loc, result, acquired, openFailed, faults>>
    /\ UNCHANGED <<wakeAt, auxVars>>

\* DELETE /api/keywords/<keyword>
DeleteKeyword(raw) ==
    /\ Served
    /\ Strip(raw) # <<>>
    /\ LET Other(k) == k # Strip(raw)
       IN  keywords' = SelectSeq(keywords, Other)
    /\ UNCHANGED <<SCAN_LOCK, IS_SCANNING, LAST_AUTO_SCAN_AT, news, scans,
                   settings, tx, clock, pc, loc, result, acquired, openFailed, faults>>
    /\ UNCHANGED <<wakeAt, auxVars>>

\* POST /api/save/<id>
ToggleSave(id) ==
    /\ Served
    /\ id \in DOMAIN news
    /\ news' = [news EXCEPT ![id].saved = IF news[id].saved = 1 THEN 0 ELSE 1]
    /\ UNCHANGED <<SCAN_LOCK, IS_SCANNING, LAST_AUTO_SCAN_AT, keywords, scans,
                   settings, tx, clock, pc, loc, result, acquired, openFailed, faults>>
    /\ UNCHANGED <<wakeAt, auxVars>>

\* POST /api/mark-seen
MarkSeen ==
    /\ Served
    /\ news' = [r \in DOMAIN news |->
                  IF news[r].is_new = 1 THEN [news[r] EXCEPT !.is_new = 0] ELSE news[r]]
    /\ UNCHANGED <<SCAN_LOCK, IS_SCANNING, LAST_AUTO_SCAN_AT, keywords, scans,
                   settings, tx, clock, pc, loc, result, acquired, openFailed, faults>>
    /\ UNCHANGED <<wakeAt, auxVars>>

\* the JSON values of auto_scan and interval_minutes in a settings request
AutoScanInputs == {"absent", "true", "false"}
NoInterval == [given |-> FALSE, numeric |-> FALSE, val |-> 0]
IntervalInputs ==
    { NoInterval,
      [given |-> TRUE, numeric |-> FALSE, val |-> 0],
      [given |-> TRUE, numeric |-> TRUE, val |-> 1],
      [given |-> TRUE, numeric |-> TRUE, val |-> 200] }

\* POST /api/settings
UpdateSettings(auto_scan, interval) ==
    /\ Served
    /\ LET s1 == IF auto_scan # "absent"
                 THEN [settings EXCEPT !.auto_scan =
                                        IF auto_scan = "true" THEN "1" ELSE "0"]
                 ELSE settings
       IN  settings' =
             IF interval.given /\ interval.numeric
             THEN [s1 EXCEPT !.interval_minutes =
                               Max(MIN_INTERVAL, Min(interval.val, MAX_INTERVAL))]
             ELSE s1
    /\ UNCHANGED <<SCAN_LOCK, IS_SCANNING, LAST_AUTO_SCAN_AT, keywords, news,
                   scans, tx, clock, pc, loc, result, acquired, openFailed, faults>>
    /\ UNCHANGED <<wakeAt, auxVars>>

\* time passes
Tick ==
    /\ clock + POLL_SECONDS <= MaxClock
    /\ clock' = clock + POLL_SECONDS
    /\ UNCHANGED <<SCAN_LOCK, IS_SCANNING, LAST_AUTO_SCAN_AT, keywords, news,
                   scans, settings, tx, pc, loc, result, acquired, openFailed, faults, requests>>
    /\ UNCHANGED <<wakeAt, auxVars>>

Next ==
    \/ \E p \in Procs : Busy(p)
    \/ \E p \in Procs : Acquire(p)
    \/ \E p \in Procs : Open(p)
    \/ \E p \in Procs : OpenFault(p)
    \/ \E p \in Procs : LoadKeywords(p)
    \/ \E p \in Procs : LoadKeywordsFault(p)
    \/ \E p \in Procs : CloseEmpty(p)
    \/ \E p \in Procs : CloseEmptyFault(p)
    \/ \E p \in Procs : FetchTrends(p)
    \/ \E p \in Procs : FetchNews(p)
    \/ \E p \in Procs : ProcessItem(p)
    \/ \E p \in Procs : ProcessItemFault(p)
    \/ \E p \in Procs : Finish(p)
    \/ \E p \in Procs, c \in BOOLEAN : FinishFault(p, c)
    \/ \E p \in Procs : Bookkeep(p)
    \/ \E p \in Procs, c \in BOOLEAN : BookkeepFault(p, c)
    \/ \E p \in Procs : Except(p)
    \/ \E p \in Procs : ExceptFault(p)
    \/ \E raw \in RawKeywords : AddKeyword(raw)
    \/ \E raw \in RawKeywords : DeleteKeyword(raw)
    \/ \E id \in 1..Cardinality(Links) : ToggleSave(id)
    \/ MarkSeen
    \/ \E a \in AutoScanInputs, i \in IntervalInputs : UpdateSettings(a, i)
    \/ Tick

Spec == Init /\ [][Next]_vars


(***************************************************************************)
(* Properties.                                                             *)
(***************************************************************************)
\* the threads that are between lock acquisition and lock release
InScan == {p \in Procs : pc[p] # "idle"}

\* C1: at most one scan_now call is between acquiring and releasing
\* SCAN_LOCK, whatever the interleaving of the scheduler's and the request
\* threads' calls, and such a call holds the lock.
C1_SingleFlight ==
    /\ Cardinality(InScan) <= 1
    /\ InScan # {} => SCAN_LOCK

\* C1 witness: the scheduler's call was rejected while a request thread's
\* scan is gathering news.
C1_Witness ==
    /\ pc["req"] = "news"
    /\ result.proc = "sched"
    /\ result.kind = "busy"

C3_LockReleased ==
    (SCAN_LOCK \/ IS_SCANNING) => InScan # {}

\* C4 (as claimed): every audit entry whose scan has ended is closed.
C4_AuditClosed ==
    \A id \in DOMAIN scans : id # loc.scan_id => scans[id].finished_at # 0


\* C5: a scan that loaded an empty keyword list goes to no fetch (it makes
\* no network call) and, leaving the early-return branch, either closes
\* its audit entry as failed with the fixed error, returns the failure with
\* the lock released and no article record or last-run bookkeeping changed,
\* or hands a database error of that UPDATE to the failure handler.
C5_EmptyKeywords ==
    /\ [](\A p \in Procs :
            /\ pc[p] \in {"trends", "news", "process", "bookkeep"}
                 => loc.keywords # <<>>
            /\ pc[p] = "empty" => loc.keywords = <<>> /\ loc.netCalls = 0)
    /\ [][\A p \in Procs :
            (pc[p] = "empty" /\ pc'[p] # "empty") =>
               /\ news' = news
               /\ LAST_AUTO_SCAN_AT' = LAST_AUTO_SCAN_AT
               /\ settings' = settings
               /\ \/ /\ pc'[p] = "idle"
                     /\ result'.proc = p
                     /\ result'.kind = "nokeywords"
                     /\ ~SCAN_LOCK' /\ ~IS_SCANNING'
                     /\ scans'[loc.scan_id].finished_at # 0
                     /\ scans'[loc.scan_id].success = 0
                     /\ scans'[loc.scan_id].error = "Anahtar kelime yok"
                  \/ /\ pc'[p] = "except"
                     /\ loc'.dbFault]_vars

\* C5 witness: a scan found no keywords, returned the failure and its
\* audit entry is closed with the fixed error.
C5_Witness ==
    /\ result.kind = "nokeywords"
    /\ ~SCAN_LOCK
    /\ result.scan_id \in DOMAIN scans
    /\ scans[result.scan_id].error = "Anahtar kelime yok"
    /\ scans[result.scan_id].finished_at # 0

\* number of gathered candidates of one keyword
RECURSIVE CountKeyword(_, _)
CountKeyword(items, kw) ==
    IF items = <<>> THEN 0
    ELSE (IF Head(items).keyword = kw THEN 1 ELSE 0) + CountKeyword(Tail(items), kw)

RECURSIVE SumDensity(_, _)
SumDensity(d, kws) ==
    IF kws = {} THEN 0
    ELSE LET kw == CHOOSE x \in kws : TRUE
         IN  d[kw] + SumDensity(d, kws \ {kw})

\* C6: a failed trending fetch leaves an empty trend list and a failed
\* news fetch leaves its keyword with density 0 and no candidate, while the
\* candidates of the other keywords stay gathered; the cycle is left for
\* the failure handler only by a database error, never by a fetch failure,
\* and when it has closed its audit entry as succeeded every gathered
\* candidate's link is stored.
C6_FetchFailuresIsolated ==
    /\ \A p \in InScan :
         /\ loc.trendsFailed => loc.trends = <<>>
         /\ \A kw \in DOMAIN loc.keyword_density :
               CountKeyword(loc.gathered, kw) = loc.keyword_density[kw]
         /\ \A kw \in loc.failedKw : loc.keyword_density[kw] = 0
         /\ pc[p] = "except" => loc.dbFault /\ loc.exc = "db"
         /\ pc[p] = "bookkeep" =>
               /\ scans[loc.scan_id].success = 1
               /\ scans[loc.scan_id].finished_at # 0
               /\ DOMAIN loc.keyword_density =
                     {loc.keywords[j] : j \in DOMAIN loc.keywords}
               /\ \A j \in DOMAIN loc.gathered : HasLink(news, loc.gathered[j].link)
    /\ result.kind = "error" => result.error = "db"

\* C6 witness: the trending fetch and one keyword's news fetch failed, and
\* the scan has closed its audit entry as succeeded with the other
\* keyword's candidates stored.
C6_Witness ==
    \E p \in Procs :
        /\ pc[p] = "bookkeep"
        /\ loc.trendsFailed
        /\ loc.failedKw # {}
        /\ Len(loc.gathered) >= 1
        /\ Len(news) >= 1


\* thread p processes one gathered candidate in this step
ProcessesItem(p) ==
    /\ pc[p] = "process"
    /\ loc.i <= Len(loc.gathered)
    /\ loc'.i = loc.i + 1

\* the candidate that is processed and the score computed for it
CurrentItem == loc.gathered[loc.i]
CurrentScore ==
    calc_trend_score(CurrentItem.title, CurrentItem.keyword,
                     CurrentItem.published_at, loc.trends,
                     DensityGet(loc.keyword_density, CurrentItem.keyword), clock)

NoDuplicateLinks ==
    \A r1, r2 \in DOMAIN news : news[r1].link = news[r2].link => r1 = r2

\* C7: no two stored records share a link; processing a candidate whose
\* link is already stored adds no record and sets the stored record's
\* score, signal and keyword to the candidate's, and processing any other
\* candidate adds exactly one record.
C7_LinkIdentity ==
    /\ []NoDuplicateLinks
    /\ [][\A p \in Procs : ProcessesItem(p) =>
            IF HasLink(news, CurrentItem.link)
            THEN /\ Len(news') = Len(news)
                 /\ LET r == RowOfLink(news, CurrentItem.link)
                    IN  /\ news'[r].link = CurrentItem.link
                        /\ news'[r].trend_score = CurrentScore.score
                        /\ news'[r].trend_signal = CurrentScore.signal
                        /\ news'[r].keyword = CurrentItem.keyword
            ELSE /\ Len(news') = Len(news) + 1
                 /\ news'[Len(news')].link = CurrentItem.link]_vars

\* C7 witness: in a second scan a stored link was observed again under
\* another keyword and with another score, and the record carries both.
C7_Witness ==
    \E p \in Procs :
        /\ acquired = 2
        /\ pc[p] = "process"
        /\ loc.i = 2
        /\ loc.new_articles = 0
        /\ Len(news) = 1
        /\ news[1].link = loc.gathered[1].link
        /\ news[1].keyword = K2
        /\ news[1].trend_score = 47
        /\ news[1].title = Strip(T1)

\* C8 (as claimed): on a link conflict a stored source or publishedAt that
\* is populated keeps its value.
C8_KeepsPopulated ==
    [][\A p \in Procs :
         (ProcessesItem(p) /\ HasLink(news, CurrentItem.link)) =>
            LET r == RowOfLink(news, CurrentItem.link)
            IN  /\ news[r].source # "NULL" => news'[r].source = news[r].source
                /\ news[r].published_at.fmt # "null"
                      => news'[r].published_at = news[r].published_at]_vars

\* C9: no step changes title or discoveredAt of a stored record; isNew
\* changes only from 1 to 0 and only in a mark-seen request, saved only in
\* a save request for that record; in particular no step of a scan changes
\* any of the four.
C9_ScanKeepsFlags ==
    [][\A r \in DOMAIN news \cap DOMAIN news' :
         /\ news'[r].title = news[r].title
         /\ news'[r].discovered_at = news[r].discovered_at
         /\ news'[r].is_new # news[r].is_new
               => news[r].is_new = 1 /\ MarkSeen
         /\ news'[r].saved # news[r].saved => ToggleSave(r)
         /\ (pc' # pc \/ loc' # loc)
               => /\ news'[r].is_new = news[r].is_new
                  /\ news'[r].saved = news[r].saved]_vars

\* C9 witness: a record that was marked seen at an earlier time has just
\* been updated by a second scan with a candidate of another title.
C9_Witness ==
    \E p \in Procs :
        /\ acquired = 2
        /\ pc[p] = "process"
        /\ loc.i = 2
        /\ loc.new_articles = 0
        /\ Len(news) = 1
        /\ news[1].link = loc.gathered[1].link
        /\ news[1].title # loc.gathered[1].title
        /\ news[1].keyword = loc.gathered[1].keyword
        /\ news[1].is_new = 0
        /\ news[1].discovered_at < clock

\* C10: when a scan has closed its audit entry as succeeded, the entry's
\* total_articles is the number of gathered candidates, which is the sum
\* of the keyword densities, and its new_articles is the number of records
\* the scan added; the returned counts are those of the entry.
C10_Counts ==
    /\ \A p \in Procs : pc[p] = "bookkeep" =>
         /\ scans[loc.scan_id].finished_at # 0
         /\ scans[loc.scan_id].success = 1
         /\ scans[loc.scan_id].total_articles = Len(loc.gathered)
         /\ scans[loc.scan_id].total_articles =
               SumDensity(loc.keyword_density, DOMAIN loc.keyword_density)
         /\ scans[loc.scan_id].new_articles = Len(news) - loc.newsBefore
    /\ result.kind = "ok" =>
         /\ scans[result.scan_id].success = 1
         /\ scans[result.scan_id].new_articles = result.newArticles
         /\ scans[result.scan_id].total_articles = result.totalProcessed

\* C10 witness: a scan closed as succeeded that inserted one candidate and
\* updated two.
C10_Witness ==
    \E p \in Procs :
        /\ pc[p] = "bookkeep"
        /\ scans[loc.scan_id].new_articles = 1
        /\ scans[loc.scan_id].total_articles = 3

(***************************************************************************)
(* The scoring function on its own, and as scan_now applies it to the      *)
(* candidates it has gathered.                                             *)
(***************************************************************************)
HOUR == 3600

Elections == <<"e", "l", "e", "c", "t", "i", "o", "n", "s">>
ElectionsTitle ==
    <<"E", "l", "e", "c", "t", "i", "o", "n", "s", " ",
      "R", "e", "s", "u", "l", "t", "s", " ",
      "A", "n", "n", "o", "u", "n", "c", "e", "d">>
ElectionsResults ==
    <<"e", "l", "e", "c", "t", "i", "o", "n", "s", " ",
      "r", "e", "s", "u", "l", "t", "s">>

\* the time of the calls, late enough for a publish date 13 hours back
ScoreNow == 14 * HOUR

ScoreTitles == {T1, ElectionsTitle, <<>>}
ScoreKeywords == {K1, Elections, <<" ">>}
ScoreDates ==
    { RfcDate(ScoreNow), RfcDate(ScoreNow - HOUR), RfcDate(ScoreNow - 13 * HOUR),
      RfcDate(ScoreNow + 100), isoformat(ScoreNow - HOUR), NoDate }
ScoreTrends ==
    { <<>>,
      << <<>> >>,
      << ElectionsResults >>,
      << <<"x">>, <<"r", "e", "s", "u", "l", "t", "s", " ", "z">> >>,
      << <<"e", "l", "e", "c", " ", "z">>, <<"a", "b", " ", "z">> >> }
ScoreDensities == {0 - 3, 0, 1, 10, 12}

ScoreInputs ==
    [kind : {"score"}, title : ScoreTitles, keyword : ScoreKeywords,
     published_at : ScoreDates, trends : ScoreTrends,
     keyword_density : ScoreDensities, now : {ScoreNow}]

\* one <item> of a news document titled as in the scenario
ElectionsEntry(pub) ==
    [title |-> ElectionsTitle, link |-> "l1", pubDate |-> pub, source |-> "s1"]

ScenarioInputs ==
    [kind : {"scan"}, keywords : {<<Elections>>, <<Elections, K1>>},
     docs : { <<<<ElectionsEntry(pub)>>, <<EntryA("l2")>>>> :
                pub \in {RfcDate(ScoreNow - HOUR), RfcDate(ScoreNow - 13 * HOUR), NoDate} },
     trendDoc : { <<ElectionsResults>>, <<K2>> },
     now : {ScoreNow}]

\* the scenario: one keyword, one item published an hour ago, the trending
\* list containing "elections results"
Scenario ==
    [kind |-> "scan", keywords |-> <<Elections>>,
     docs |-> <<<<ElectionsEntry(RfcDate(ScoreNow - HOUR))>>, <<EntryA("l2")>>>>,
     trendDoc |-> <<ElectionsResults>>, now |-> ScoreNow]

\* `for kw in keywords`: the candidates of each keyword, each with the
\* density recorded for its keyword
RECURSIVE Gather(_, _, _)
Gather(kws, docs, now) ==
    IF kws = <<>> THEN <<>>
    ELSE LET items == fetch_google_news(Head(kws), Head(docs), SCAN_MAX_ITEMS, now)
         IN  [i \in 1..Len(items) |-> [item |-> items[i], density |-> Len(items)]]
                \o Gather(Tail(kws), Tail(docs), now)

\* `for item in gathered`: the score and signal scan_now stores for each
ScoreGathered(kws, docs, trendDoc, now) ==
    LET trends == fetch_google_trends(trendDoc, TRENDS_MAX_ITEMS)
        gathered == Gather(kws, docs, now)
    IN  [i \in 1..Len(gathered) |->
            LET item == gathered[i].item
                sc == calc_trend_score(item.title, item.keyword, item.published_at,
                                       trends, gathered[i].density, now)
            IN  [link |-> item.link, keyword |-> item.keyword,
                 trend_score |-> sc.score, trend_signal |-> sc.signal]]

ScoreInit ==
    /\ ScanInit
    /\ clock = 1
    /\ CachesInit
    /\ input \in ScoreInputs \cup ScenarioInputs
    /\ output = NoOutput

\* a call of calc_trend_score
ApplyScore ==
    /\ input.kind = "score"
    /\ output = NoOutput
    /\ LET sc == calc_trend_score(input.title, input.keyword, input.published_at,
                                  input.trends, input.keyword_density, input.now)
       IN  output' = [kind |-> "score", score |-> sc.score, signal |-> sc.signal]
    /\ UNCHANGED <<scanVars, clock, cacheVars, input>>

\* the gathering and scoring loops of scan_now
ApplyScanScore ==
    /\ input.kind = "scan"
    /\ output = NoOutput
    /\ output' = [kind |-> "scan",
                  rows |-> ScoreGathered(input.keywords, input.docs,
                                         input.trendDoc, input.now)]
    /\ UNCHANGED <<scanVars, clock, cacheVars, input>>

ScoreNext ==
    \/ ApplyScore
    \/ ApplyScanScore

ScoreSpec == ScoreInit /\ [][ScoreNext]_vars

\* a trending phrase matches a title: the phrase is not empty and the
\* normalized title contains the whole phrase or one of its words of more
\* than 4 characters
PhraseMatches(t, title) ==
    /\ Len(t) > 0
    /\ \/ Contains(normalize_text(title), t)
       \/ \E w \in {Split(t, <<>>)[j] : j \in 1..Len(Split(t, <<>>))} :
             Len(w) > 4 /\ Contains(normalize_text(title), w)

\* C11: every score calc_trend_score returns is an integer from 0 to 100
\* and every signal is 0 or 1, the signal being 1 only when some non-empty
\* trending phrase matched the title; the scores and signals a scan
\* computes for its candidates are in the same ranges.
C11_ScoreRange ==
    /\ output.kind = "score" =>
         /\ output.score \in 0..100
         /\ output.signal \in {0, 1}
         /\ output.signal = 1 =>
               \E i \in DOMAIN input.trends :
                   PhraseMatches(input.trends[i], input.title)
    /\ output.kind = "scan" =>
         \A i \in DOMAIN output.rows :
             /\ output.rows[i].trend_score \in 0..100
             /\ output.rows[i].trend_signal \in {0, 1}

\* C11 witness: a call whose terms add up to more than 100 returned 100
\* with the signal set.
C11_Witness ==
    /\ output.kind = "score"
    /\ output.score = 100
    /\ output.signal = 1
    /\ input.keyword_density = 10
    /\ input.published_at = RfcDate(ScoreNow)
    /\ input.keyword = Elections

\* C12: in the scenario the scan computes for its one candidate the signal
\* 1 and a score of at least 45 + 20 + 25 = 90 and at most 100.
C12_Scenario ==
    (input = Scenario /\ output.kind = "scan") =>
        /\ Len(output.rows) = 1
        /\ output.rows[1].trend_signal = 1
        /\ output.rows[1].trend_score >= 45 + 20 + 25
        /\ output.rows[1].trend_score <= 100

\* C12 witness: the scenario's candidate was scored 92, which is 45 for
\* recency, 20 for the keyword, 25 for the trend and 2 for the density.
C12_Witness ==
    /\ input = Scenario
    /\ output.kind = "scan"
    /\ output.rows[1].trend_score = 92
    /\ output.rows[1].trend_signal = 1

(***************************************************************************)
(* The interest service client.  A response of the service is a record     *)
(* [ok, ...]: ok is FALSE when fetch_xml or parse_trends_json raises.  A   *)
(* widget is [id, request, token], with token "" when it has none.  A      *)
(* request sent to the service is [url, items, echo, token].               *)
(***************************************************************************)
BATCH_SIZE == 8

\* chunked(items, size)
chunked(items, size) ==
    [b \in 1..((Len(items) + size - 1) \div size) |->
        SubSeq(items, (b - 1) * size + 1, Min(b * size, Len(items)))]

NoWidget == [id |-> "", request |-> "", token |-> ""]

\* mutant: the first widget is taken whatever its id
FindWidget_First(widgets, id) ==
    IF widgets = <<>> THEN NoWidget ELSE Head(widgets)

\* `for w in widgets: if w.get("id") == id: ...; break`
FindWidget(widgets, id) ==
    IF \E i \in DOMAIN widgets : widgets[i].id = id
    THEN widgets[CHOOSE i \in DOMAIN widgets :
                    /\ widgets[i].id = id
                    /\ \A j \in 1..(i - 1) : widgets[j].id # id]
    ELSE NoWidget

\* the explore request for a list of keywords
ExploreRequest(kws, geo, timeframe) ==
    [url |-> "explore",
     items |-> [i \in 1..Len(kws) |-> [keyword |-> kws[i], geo |-> geo, time |-> timeframe]],
     echo |-> "", token |-> ""]

\* the data request built from a widget
DataRequest(url, w) ==
    [url |-> url, items |-> <<>>, echo |-> w.request, token |-> w.token]

EmptyMap == [k \in {} |-> <<>>]

IndexOf(seq, x) == CHOOSE i \in DOMAIN seq : seq[i] = x /\ \A j \in 1..(i - 1) : seq[j] # x

\* the series of each keyword of the batch out of the timeline rows
ValuesByKeyword(kws, timeline) ==
    [kw \in {kws[i] : i \in DOMAIN kws} |->
        [r \in 1..Len(timeline) |->
            IF IndexOf(kws, kw) <= Len(timeline[r])
            THEN timeline[r][IndexOf(kws, kw)] ELSE 0]]

\* fetch_last_hour_interest_for_batch against the responses `up`
fetch_last_hour_interest_for_batch(kws, geo, timeframe, up) ==
    LET explore == ExploreRequest(kws, geo, timeframe)
        w == FindWidget(up.explore.widgets, "TIMESERIES")
        multi == DataRequest("multiline", w)
    IN  IF kws = <<>>
        THEN [raised |-> FALSE, value |-> EmptyMap, requests |-> <<>>]
        ELSE IF ~up.explore.ok
        THEN [raised |-> TRUE, value |-> EmptyMap, requests |-> <<explore>>]
        ELSE IF w = NoWidget \/ w.token = ""
        THEN [raised |-> FALSE, value |-> EmptyMap, requests |-> <<explore>>]
        ELSE IF ~up.data.ok
        THEN [raised |-> TRUE, value |-> EmptyMap, requests |-> <<explore, multi>>]
        ELSE [raised |-> FALSE, value |-> ValuesByKeyword(kws, up.data.timeline),
              requests |-> <<explore, multi>>]

\* normalize_items: entries with an empty query are dropped
normalize_items(items) ==
    LET HasQuery(it) == Strip(it.query) # <<>>
        kept == SelectSeq(items, HasQuery)
    IN  [i \in 1..Len(kept) |-> [kept[i] EXCEPT !.query = Strip(kept[i].query)]]

\* fetch_related_queries_for_keyword against the responses `up`
fetch_related_queries_for_keyword(keyword, geo, timeframe, up, now) ==
    LET explore == ExploreRequest(<<keyword>>, geo, timeframe)
        w == FindWidget(up.explore.widgets, "RELATED_QUERIES")
        related == DataRequest("relatedsearches", w)
        ranked == up.data.ranked
        Empty == [keyword |-> keyword, top |-> <<>>, rising |-> <<>>,
                  generated_at |-> now]
    IN  IF ~up.explore.ok
        THEN [raised |-> TRUE, value |-> Empty, requests |-> <<explore>>]
        ELSE IF w = NoWidget \/ w.token = ""
        THEN [raised |-> FALSE, value |-> Empty, requests |-> <<explore>>]
        ELSE IF ~up.data.ok
        THEN [raised |-> TRUE, value |-> Empty, requests |-> <<explore, related>>]
        ELSE [raised |-> FALSE,
              value |-> [keyword |-> keyword,
                         top |-> IF Len(ranked) > 0
                                 THEN normalize_items(ranked[1]) ELSE <<>>,
                         rising |-> IF Len(ranked) > 1
                                    THEN normalize_items(ranked[2]) ELSE <<>>,
                         generated_at |-> now],
              requests |-> <<explore, related>>]

RECURSIVE Sum(_)
Sum(seq) == IF seq = <<>> THEN 0 ELSE Head(seq) + Sum(Tail(seq))

\* round(total / n, 2) in hundredths, ties to the even hundredth
Round2(total, n) ==
    LET a == IF total >= 0 THEN total ELSE 0 - total
        q == (100 * a) \div n
        r == (100 * a) % n
        m == IF 2 * r < n THEN q
             ELSE IF 2 * r > n THEN q + 1
             ELSE IF q % 2 = 0 THEN q ELSE q + 1
    IN  IF total >= 0 THEN m ELSE 0 - m

\* the item of one keyword; the averages are in hundredths
SeriesItem(kw, series) ==
    IF series = <<>>
    THEN [keyword |-> kw, latest_index |-> 0, avg_60m |-> 0, avg_20m |-> 0,
          delta_20m |-> 0, points |-> <<>>]
    ELSE LET n == Len(series)
             tail_20 == IF n >= 20 THEN SubSeq(series, n - 19, n) ELSE series
             head_20 == IF n >= 20 THEN SubSeq(series, 1, 20) ELSE series
         IN  [keyword |-> kw, latest_index |-> series[n],
              avg_60m |-> Round2(Sum(series), n),
              avg_20m |-> Round2(Sum(tail_20), Len(tail_20)),
              delta_20m |-> Round2(Sum(tail_20) - Sum(head_20), Len(tail_20)),
              points |-> series]

\* mutant: the sort key is latest_index alone
SortsBefore_LatestOnly(x, y) == x.latest_index > y.latest_index

\* key=(latest_index, avg_20m), reverse=True
SortsBefore(x, y) ==
    \/ x.latest_index > y.latest_index
    \/ x.latest_index = y.latest_index /\ x.avg_20m > y.avg_20m

\* items.sort(...): stable, items of equal key keep their order
RECURSIVE InsertSorted(_, _)
InsertSorted(sorted, x) ==
    IF sorted = <<>> THEN <<x>>
    ELSE IF SortsBefore(x, Head(sorted)) THEN <<x>> \o sorted
         ELSE <<Head(sorted)>> \o InsertSorted(Tail(sorted), x)

RECURSIVE SortItems(_)
SortItems(items) ==
    IF items = <<>> THEN <<>>
    ELSE InsertSorted(SortItems(SubSeq(items, 1, Len(items) - 1)), items[Len(items)])

\* collected.update(batch_vals)
MapUpdate(m, n) ==
    [k \in DOMAIN m \cup DOMAIN n |-> IF k \in DOMAIN n THEN n[k] ELSE m[k]]

\* mutant: a failing batch clears what was collected before it
SetDefaults_Clears(m, kws) ==
    [k \in {kws[i] : i \in DOMAIN kws} |-> <<>>]

\* `for kw in batch: collected.setdefault(kw, [])`
SetDefaults(m, kws) ==
    [k \in DOMAIN m \cup {kws[i] : i \in DOMAIN kws} |->
        IF k \in DOMAIN m THEN m[k] ELSE <<>>]

\* `for batch in chunked(keywords, 8)`: what is collected, and the requests sent
RECURSIVE Collect(_, _, _, _)
Collect(batches, ups, b, acc) ==
    IF b > Len(batches) THEN acc
    ELSE LET got == fetch_last_hour_interest_for_batch(batches[b], "TR", "now 1-H", ups[b])
         IN  Collect(batches, ups, b + 1,
                     [collected |-> IF got.raised
                                    THEN SetDefaults(acc.collected, batches[b])
                                    ELSE MapUpdate(acc.collected, got.value),
                      requests |-> acc.requests \o got.requests])

\* build_last_hour_trends against the responses `ups`, one per batch
build_last_hour_trends(kws, ups, now) ==
    LET got == Collect(chunked(kws, BATCH_SIZE), ups, 1,
                       [collected |-> EmptyMap, requests |-> <<>>])
        Series(kw) == IF kw \in DOMAIN got.collected THEN got.collected[kw] ELSE <<>>
    IN  [value |-> [generated_at |-> now,
                    items |-> SortItems([i \in 1..Len(kws) |->
                                            SeriesItem(kws[i], Series(kws[i]))])],
         requests |-> IF kws = <<>> THEN <<>> ELSE got.requests]

(***************************************************************************)
(* The interest service client applied to drawn responses.                 *)
(***************************************************************************)
Letters == <<"a", "b", "c", "d", "f", "g", "h", "i", "j", "k">>

\* n tracked keywords, all different
KeywordList(n) == [i \in 1..n |-> <<Letters[i]>>]

OtherWidget == [id |-> "GEO_MAP", request |-> "rq-geo", token |-> "tk-geo"]
SeriesWidget == [id |-> "TIMESERIES", request |-> "rq-ts", token |-> "tk-ts"]
RelatedWidget == [id |-> "RELATED_QUERIES", request |-> "rq-rel", token |-> "tk-rel"]

ExploreResponses ==
    { [ok |-> FALSE, widgets |-> <<>>],
      [ok |-> TRUE, widgets |-> <<OtherWidget>>],
      [ok |-> TRUE, widgets |-> <<OtherWidget, [SeriesWidget EXCEPT !.token = ""],
                                  [RelatedWidget EXCEPT !.token = ""]>>],
      [ok |-> TRUE, widgets |-> <<OtherWidget, SeriesWidget, RelatedWidget>>] }

Timeline == << <<5, 3, 0, 1, 2, 4, 6, 7>>, <<9, 1>> >>

RankedItem(q, v) ==
    [query |-> q, value |-> v, formatted_value |-> "", link |-> ""]

DataResponses ==
    { [ok |-> FALSE, timeline |-> <<>>, ranked |-> <<>>],
      [ok |-> TRUE, timeline |-> Timeline,
       ranked |-> << <<RankedItem(K1, 100), RankedItem(<<" ">>, 50)>>,
                     <<RankedItem(K2, 70)>> >>],
      [ok |-> TRUE, timeline |-> <<>>, ranked |-> << <<RankedItem(K2, 10)>> >>] }

Responses == [explore : ExploreResponses, data : DataResponses]

InterestInputs ==
    [kind : {"series"},
     keywords : {KeywordList(n) : n \in {0, 1, 8, 9, 10}},
     ups : [1..2 -> Responses]]
    \cup [kind : {"batch"}, keywords : {KeywordList(n) : n \in {0, 2}},
          up : Responses]
    \cup [kind : {"related"}, keyword : {K1}, up : Responses]

InterestInit ==
    /\ ScanInit
    /\ clock = 1
    /\ CachesInit
    /\ input \in InterestInputs
    /\ output = NoOutput

\* a call of build_last_hour_trends
ApplySeries ==
    /\ input.kind = "series"
    /\ output = NoOutput
    /\ LET got == build_last_hour_trends(input.keywords, input.ups, clock)
       IN  output' = [kind |-> "series", raised |-> FALSE, value |-> got.value,
                      requests |-> got.requests]
    /\ UNCHANGED <<scanVars, clock, cacheVars, input>>

\* a call of fetch_last_hour_interest_for_batch
ApplyBatch ==
    /\ input.kind = "batch"
    /\ output = NoOutput
    /\ LET got == fetch_last_hour_interest_for_batch(input.keywords, "TR",
                                                     "now 1-H", input.up)
       IN  output' = [kind |-> "batch", raised |-> got.raised, value |-> got.value,
                      requests |-> got.requests]
    /\ UNCHANGED <<scanVars, clock, cacheVars, input>>

\* a call of fetch_related_queries_for_keyword
ApplyRelated ==
    /\ input.kind = "related"
    /\ output = NoOutput
    /\ LET got == fetch_related_queries_for_keyword(input.keyword, "TR",
                                                    "now 1-H", input.up, clock)
       IN  output' = [kind |-> "related", raised |-> got.raised, value |-> got.value,
                      requests |-> got.requests]
    /\ UNCHANGED <<scanVars, clock, cacheVars, input>>

InterestNext ==
    \/ ApplySeries
    \/ ApplyBatch
    \/ ApplyRelated

InterestSpec == InterestInit /\ [][InterestNext]_vars

\* the explore response carries the wanted widget with a token
HasWidget(up, id) ==
    \E i \in DOMAIN up.explore.widgets :
        up.explore.widgets[i].id = id /\ up.explore.widgets[i].token # ""

\* the upstream call of a batch fails: one of the two requests it sends raises
BatchFails(up) ==
    \/ ~up.explore.ok
    \/ HasWidget(up, "TIMESERIES") /\ ~up.data.ok

\* the upstream call of a batch resolves: both steps answer
BatchResolves(up) ==
    up.explore.ok /\ HasWidget(up, "TIMESERIES") /\ up.data.ok

BatchOf(i) == ((i - 1) \div 8) + 1
PlaceInBatch(i) == ((i - 1) % 8) + 1

\* the item returned for the i-th requested keyword
ItemOf(i) ==
    CHOOSE it \in {output.value.items[j] : j \in DOMAIN output.value.items} :
        it.keyword = input.keywords[i]

\* C18: build_last_hour_trends never raises and returns one item per
\* requested keyword; the keywords are handled in consecutive batches of 8,
\* and a keyword whose batch failed upstream has latest_index 0 and no
\* points, while a keyword whose batch resolved has the series of its own
\* column of that batch's timeline, whatever happened to the other batch.
C18_BatchIsolation ==
    output.kind = "series" =>
        /\ ~output.raised
        /\ Len(output.value.items) = Len(input.keywords)
        /\ \A i \in DOMAIN input.keywords :
             /\ Cardinality({j \in DOMAIN output.value.items :
                    output.value.items[j].keyword = input.keywords[i]}) = 1
             /\ BatchFails(input.ups[BatchOf(i)]) =>
                   /\ ItemOf(i).latest_index = 0
                   /\ ItemOf(i).points = <<>>
             /\ BatchResolves(input.ups[BatchOf(i)]) =>
                   LET rows == input.ups[BatchOf(i)].data.timeline
                   IN  ItemOf(i).points =
                         [r \in 1..Len(rows) |->
                             IF PlaceInBatch(i) <= Len(rows[r])
                             THEN rows[r][PlaceInBatch(i)] ELSE 0]

\* C18 witness: of 10 keywords the first 8 have an empty series because
\* their batch failed, and the last 2 have the series of the second batch.
C18_Witness ==
    /\ output.kind = "series"
    /\ Len(input.keywords) = 10
    /\ BatchFails(input.ups[1])
    /\ BatchResolves(input.ups[2])
    /\ Len(input.ups[2].data.timeline) = 2
    /\ \A i \in 1..8 : ItemOf(i).points = <<>>
    /\ ItemOf(9).points = <<5, 9>>
    /\ ItemOf(10).points = <<3, 1>>

WantedWidget == IF input.kind = "batch" THEN "TIMESERIES" ELSE "RELATED_QUERIES"

\* C19: a data request is sent only second, after an explore request whose
\* response carried the wanted widget with a token, and it carries that
\* widget's request object and token; when the explore response has no
\* such widget or the widget has no token, the call returns the empty
\* result without raising and sends no data request.
C19_TwoStep ==
    output.kind \in {"batch", "related"} =>
        /\ \A n \in DOMAIN output.requests :
             output.requests[n].url # "explore" =>
                /\ n = 2
                /\ output.requests[1].url = "explore"
                /\ input.up.explore.ok
                /\ \E i \in DOMAIN input.up.explore.widgets :
                      LET w == input.up.explore.widgets[i]
                      IN  /\ w.id = WantedWidget
                          /\ w.token # ""
                          /\ output.requests[n].echo = w.request
                          /\ output.requests[n].token = w.token
        /\ (input.up.explore.ok /\ ~HasWidget(input.up, WantedWidget)) =>
             /\ ~output.raised
             /\ \A n \in DOMAIN output.requests : output.requests[n].url = "explore"
             /\ output.kind = "batch" => output.value = EmptyMap
             /\ output.kind = "related" =>
                   output.value.top = <<>> /\ output.value.rising = <<>>

\* C19 witness: a related-queries call sent the data request with the
\* token of the RELATED_QUERIES widget, which was not the first widget of
\* the explore response.
C19_Witness ==
    /\ output.kind = "related"
    /\ Len(output.requests) = 2
    /\ output.requests[2].url = "relatedsearches"
    /\ output.requests[2].token = "tk-rel"
    /\ output.requests[2].echo = "rq-rel"
    /\ input.up.explore.widgets[1].id = "GEO_MAP"
    /\ Len(output.value.top) = 1

(***************************************************************************)
(* The two result caches under concurrent request threads.  The service    *)
(* answers its n-th request with data that carries n.                      *)
(***************************************************************************)
MaxUpstream == 4
MaxCacheTicks == 2

RELATED_TTL == 300
TRENDS_TTL == 240

\* time.time() is far beyond every ttl
CacheStart == RELATED_TTL + TRENDS_TTL

\* the characters in code point order
CodePoints == <<" ", "A", "B", "C", "E", "R", "a", "b", "c", "|">>
Ord(c) == CHOOSE i \in DOMAIN CodePoints : CodePoints[i] = c

\* s < t on strings
RECURSIVE StrLess(_, _)
StrLess(a, b) ==
    IF b = <<>> THEN FALSE
    ELSE IF a = <<>> THEN TRUE
    ELSE IF Head(a) = Head(b) THEN StrLess(Tail(a), Tail(b))
    ELSE Ord(Head(a)) < Ord(Head(b))

RECURSIVE InsertStr(_, _)
InsertStr(sorted, x) ==
    IF sorted = <<>> THEN <<x>>
    ELSE IF StrLess(x, Head(sorted)) THEN <<x>> \o sorted
         ELSE <<Head(sorted)>> \o InsertStr(Tail(sorted), x)

\* sorted(...)
RECURSIVE SortStrings(_)
SortStrings(strs) ==
    IF strs = <<>> THEN <<>>
    ELSE InsertStr(SortStrings(Tail(strs)), Head(strs))

\* sep.join(...)
RECURSIVE Join(_, _)
Join(strs, sep) ==
    IF strs = <<>> THEN <<>>
    ELSE IF Len(strs) = 1 THEN Head(strs)
    ELSE Head(strs) \o <<sep>> \o Join(Tail(strs), sep)

\* mutant: the normalized keywords are joined in the order given
TrendsSig_Unsorted(kws) ==
    Join([i \in 1..Len(kws) |-> normalize_text(kws[i])], "|")

\* sig = "|".join(sorted(normalize_text(k) for k in keywords))
TrendsSig(kws) ==
    Join(SortStrings([i \in 1..Len(kws) |-> normalize_text(kws[i])]), "|")

\* k = f"{normalize_text(keyword)}|{geo}|{timeframe}"
RelatedKey(keyword, geo, timeframe) ==
    normalize_text(keyword) \o <<"|">> \o <<geo>> \o <<"|">> \o <<timeframe>>

\* mutant: the assignment replaces the whole mapping by the one entry
StoreRelated_Single(cache, k, entry) == [x \in {k} |-> entry]

\* RELATED_CACHE[k] = {"ts": now_ts, "data": data}
StoreRelated(cache, k, entry) ==
    [x \in DOMAIN cache \cup {k} |-> IF x = k THEN entry ELSE cache[x]]

Outcomes == {"explore_fails", "ok"}

\* what the service answers to the explore and the data request of a call
ServiceAnswers(outcome, n) ==
    [explore |->
        IF outcome = "explore_fails" THEN [ok |-> FALSE, widgets |-> <<>>]
        ELSE IF outcome = "no_widget" THEN [ok |-> TRUE, widgets |-> <<OtherWidget>>]
        ELSE [ok |-> TRUE, widgets |-> <<OtherWidget, SeriesWidget, RelatedWidget>>],
     data |->
        IF outcome = "data_fails"
        THEN [ok |-> FALSE, timeline |-> <<>>, ranked |-> <<>>]
        ELSE [ok |-> TRUE, timeline |-> << <<n, n>> >>,
              ranked |-> << <<RankedItem(K1, n)>> >>]]

RelatedKeywords == {K1, <<"A", "b">>, K2}
TrendsKeywords == {<<>>, <<K2, K1>>, << <<"A", "b", " ">>, K2>>}

\* bookkeeping of the completed stores, kept per key
Remember(m, k, entry) ==
    [x \in DOMAIN m \cup {k} |-> IF x = k THEN entry ELSE m[x]]

Returned(t, fn, hit, raised, value) ==
    [kind |-> "cache", fn |-> fn, thread |-> t, hit |-> hit, raised |-> raised,
     value |-> value]

\* the two caches share no state: a run addresses one of the two endpoints
CacheInputs == {[kind |-> "related"], [kind |-> "trends"]}

CacheInit ==
    /\ ScanInit
    /\ clock = CacheStart
    /\ CachesInit
    /\ input \in CacheInputs
    /\ output = NoOutput

\* mutant: an entry of exactly ttl_seconds of age still counts as fresh
Fresh_Inclusive(now_ts, ts, ttl_seconds) == now_ts - ts <= ttl_seconds

\* now_ts - ts < ttl_seconds
Fresh(now_ts, ts, ttl_seconds) == now_ts - ts < ttl_seconds

\* cached_related_queries_for_keyword up to the cache test: a hit returns
RelatedBegin(t, keyword, force_refresh) ==
    /\ input.kind = "related"
    /\ call[t] = NoCall
    /\ LET k == RelatedKey(keyword, "TR", "now 1-H")
           now_ts == clock
       IN  IF /\ ~force_refresh
              /\ k \in DOMAIN RELATED_CACHE
              /\ Fresh(now_ts, RELATED_CACHE[k].ts, RELATED_TTL)
           THEN /\ output' = Returned(t, "related", TRUE, FALSE, RELATED_CACHE[k].data)
                /\ UNCHANGED call
           ELSE /\ call' = [call EXCEPT ![t] =
                              [fn |-> "related", pc |-> "fetch", arg |-> keyword,
                               key |-> k, now_ts |-> now_ts,
                               data |-> EmptyTrendsData]]
                /\ UNCHANGED output
    /\ UNCHANGED <<RELATED_CACHE, TRENDS_CACHE, upstream, stored, scanVars, clock, input>>

\* the rest of it: fetch_related_queries_for_keyword, the store, the return
RelatedFetch(t, outcome) ==
    /\ call[t] # NoCall
    /\ call[t].fn = "related"
    /\ call[t].pc = "fetch"
    /\ upstream + 2 <= MaxUpstream
    /\ LET got == fetch_related_queries_for_keyword(
                      call[t].arg, "TR", "now 1-H",
                      ServiceAnswers(outcome, upstream + 1), clock)
           entry == [ts |-> call[t].now_ts, data |-> got.value]
       IN  /\ upstream' = upstream + Len(got.requests)
           /\ IF got.raised
              THEN /\ output' = Returned(t, "related", FALSE, TRUE, got.value)
                   /\ UNCHANGED <<RELATED_CACHE, stored>>
              ELSE /\ RELATED_CACHE' = StoreRelated(RELATED_CACHE, call[t].key, entry)
                   /\ stored' = [stored EXCEPT !.related =
                                    Remember(stored.related, call[t].key, entry)]
                   /\ output' = Returned(t, "related", FALSE, FALSE, got.value)
    /\ call' = [call EXCEPT ![t] = NoCall]
    /\ UNCHANGED <<TRENDS_CACHE, scanVars, clock, input>>

\* cached_last_hour_trends up to the test of TRENDS_CACHE["sig"]
TrendsBegin(t, kws, force_refresh) ==
    /\ input.kind = "trends"
    /\ call[t] = NoCall
    /\ LET sig == TrendsSig(kws)
       IN  call' = [call EXCEPT ![t] =
                      [fn |-> "trends",
                       pc |-> IF ~force_refresh /\ TRENDS_CACHE.sig = sig
                              THEN "checkTs" ELSE "build",
                       arg |-> kws, key |-> sig, now_ts |-> clock,
                       data |-> EmptyTrendsData]]
    /\ UNCHANGED <<RELATED_CACHE, TRENDS_CACHE, upstream, stored, scanVars, clock,
                   input, output>>

\* the test of TRENDS_CACHE["ts"]
TrendsCheckTs(t) ==
    /\ call[t] # NoCall
    /\ call[t].fn = "trends"
    /\ call[t].pc = "checkTs"
    /\ call' = [call EXCEPT ![t].pc =
                  IF Fresh(call[t].now_ts, TRENDS_CACHE.ts, TRENDS_TTL)
                  THEN "readData" ELSE "build"]
    /\ UNCHANGED <<RELATED_CACHE, TRENDS_CACHE, upstream, stored, scanVars, clock,
                   input, output>>

\* return TRENDS_CACHE["data"]
TrendsReadData(t) ==
    /\ call[t] # NoCall
    /\ call[t].fn = "trends"
    /\ call[t].pc = "readData"
    /\ output' = Returned(t, "trends", TRUE, FALSE, TRENDS_CACHE.data)
    /\ call' = [call EXCEPT ![t] = NoCall]
    /\ UNCHANGED <<RELATED_CACHE, TRENDS_CACHE, upstream, stored, scanVars, clock, input>>

\* data = build_last_hour_trends(keywords); TRENDS_CACHE["ts"] = now_ts
TrendsBuild(t, outcome) ==
    /\ call[t] # NoCall
    /\ call[t].fn = "trends"
    /\ call[t].pc = "build"
    /\ upstream + 2 <= MaxUpstream
    /\ LET got == build_last_hour_trends(
                      call[t].arg, <<ServiceAnswers(outcome, upstream + 1)>>, clock)
       IN  /\ upstream' = upstream + Len(got.requests)
           /\ call' = [call EXCEPT ![t].pc = "setSig", ![t].data = got.value]
    /\ TRENDS_CACHE' = [TRENDS_CACHE EXCEPT !.ts = call[t].now_ts]
    /\ UNCHANGED <<RELATED_CACHE, stored, scanVars, clock, input, output>>

\* TRENDS_CACHE["sig"] = sig
TrendsSetSig(t) ==
    /\ call[t] # NoCall
    /\ call[t].fn = "trends"
    /\ call[t].pc = "setSig"
    /\ TRENDS_CACHE' = [TRENDS_CACHE EXCEPT !.sig = call[t].key]
    /\ call' = [call EXCEPT ![t].pc = "setData"]
    /\ UNCHANGED <<RELATED_CACHE, upstream, stored, scanVars, clock, input, output>>

\* TRENDS_CACHE["data"] = data; return data
TrendsSetData(t) ==
    /\ call[t] # NoCall
    /\ call[t].fn = "trends"
    /\ call[t].pc = "setData"
    /\ TRENDS_CACHE' = [TRENDS_CACHE EXCEPT !.data = call[t].data]
    /\ stored' = [stored EXCEPT !.trends =
                     Remember(stored.trends, call[t].key, [ts |-> call[t].now_ts])]
    /\ output' = Returned(t, "trends", FALSE, FALSE, call[t].data)
    /\ call' = [call EXCEPT ![t] = NoCall]
    /\ UNCHANGED <<RELATED_CACHE, upstream, scanVars, clock, input>>

\* the default ttl_seconds of the cache the run addresses
CacheTtl == IF input.kind = "related" THEN RELATED_TTL ELSE TRENDS_TTL

\* time passes, half a ttl at a time
CacheTick ==
    /\ clock + CacheTtl \div 2 <= CacheStart + MaxCacheTicks * (CacheTtl \div 2)
    /\ clock' = clock + CacheTtl \div 2
    /\ UNCHANGED <<scanVars, cacheVars, input, output>>

CacheNext ==
    \/ \E t \in Readers, kw \in RelatedKeywords, f \in BOOLEAN : RelatedBegin(t, kw, f)
    \/ \E t \in Readers, o \in Outcomes : RelatedFetch(t, o)
    \/ \E t \in Readers, kws \in TrendsKeywords, f \in BOOLEAN : TrendsBegin(t, kws, f)
    \/ \E t \in Readers : TrendsCheckTs(t)
    \/ \E t \in Readers : TrendsReadData(t)
    \/ \E t \in Readers : TrendsBuild(t, "ok")
    \/ \E t \in Readers : TrendsSetSig(t)
    \/ \E t \in Readers : TrendsSetData(t)
    \/ CacheTick

CacheSpec == CacheInit /\ [][CacheNext]_vars

\* thread t is inside a call of the named function at the named place
At(t, fn, place) == call[t] # NoCall /\ call[t].fn = fn /\ call[t].pc = place

\* C13: a related-queries call without forced refresh, made less than the
\* ttl after the last store for its key normalizedKeyword|geo|timeframe,
\* returns the value of that store at once and sends no request to the
\* service, whatever was stored for other keys in the meantime.
C13_RelatedHit ==
    [][\A t \in Readers, kw \in RelatedKeywords :
         LET k == RelatedKey(kw, "TR", "now 1-H")
         IN  (/\ RelatedBegin(t, kw, FALSE)
              /\ k \in DOMAIN stored.related
              /\ clock - stored.related[k].ts < RELATED_TTL)
             => /\ output' = Returned(t, "related", TRUE, FALSE,
                                      stored.related[k].data)
                /\ upstream' = upstream
                /\ call'[t] = NoCall
                /\ RELATED_CACHE' = RELATED_CACHE]_vars

\* C13 witness: a call returned from the cache the value stored earlier for
\* its key, a value for another key having been stored after it.
C13_Witness ==
    /\ output.kind = "cache"
    /\ output.fn = "related"
    /\ output.hit
    /\ Cardinality(DOMAIN RELATED_CACHE) = 2
    /\ \E k, k2 \in DOMAIN RELATED_CACHE :
          /\ RELATED_CACHE[k].data = output.value
          /\ RELATED_CACHE[k].ts < RELATED_CACHE[k2].ts
          /\ RELATED_CACHE[k2].ts <= clock
    /\ upstream = 4

\* C14 (as claimed): with no other call under way, an interest-index call
\* without forced refresh, made less than the ttl after the last store for
\* its keyword set, does not recompute.
C14_MappingHit ==
    [][\A t \in Readers, kws \in TrendsKeywords :
         (/\ TrendsBegin(t, kws, FALSE)
          /\ \A u \in Readers : call[u] = NoCall
          /\ TrendsSig(kws) \in DOMAIN stored.trends
          /\ clock - stored.trends[TrendsSig(kws)].ts < TRENDS_TTL)
         => call'[t].pc # "build"]_vars

\* the value computed from the answer the service gives to request n
IsAnswer(value, fn, n) ==
    IF fn = "related"
    THEN Len(value.top) = 1 /\ value.top[1].value = n
    ELSE \A i \in DOMAIN value.items : value.items[i].points = <<n>>

\* a related-queries call that is forced, or whose key has no entry, or
\* whose entry is at least the ttl old
RelatedMisses(t, kw, f) ==
    /\ RelatedBegin(t, kw, f)
    /\ \/ f
       \/ RelatedKey(kw, "TR", "now 1-H") \notin DOMAIN RELATED_CACHE
       \/ clock - RELATED_CACHE[RelatedKey(kw, "TR", "now 1-H")].ts >= RELATED_TTL

\* an interest-index call that is forced or finds another key in the cache
TrendsMisses(t, kws, f) ==
    /\ TrendsBegin(t, kws, f)
    /\ f \/ TRENDS_CACHE.sig # TrendsSig(kws)

\* an interest-index call that finds a timestamp at least the ttl old
TrendsExpired(t) ==
    /\ TrendsCheckTs(t)
    /\ call[t].now_ts - TRENDS_CACHE.ts >= TRENDS_TTL

SchedulerInvokes == Acquire("sched") \/ Busy("sched")

\* the interval the worker compares with, in seconds
IntervalSeconds ==
    Max(MIN_INTERVAL, Min(settings.interval_minutes, MAX_INTERVAL)) * 60

\* C16 (as claimed): when the scheduler invokes scan_now after an earlier
\* invocation of its own, at least the clamped interval has passed since
\* that invocation returned, whatever its outcome.  (The worker went to
\* sleep at wakeAt - POLL_SECONDS, right after the earlier invocation.)
C16_SchedulerSpacing ==
    [][(SchedulerInvokes /\ wakeAt > 0)
         => clock - (wakeAt - POLL_SECONDS) >= IntervalSeconds]_vars

\* C17 (as claimed): the scheduler invokes scan_now only while the setting
\* is on, and when the last scan that returned was a manual one, only once
\* the clamped interval has passed since that scan started.
C17_ManualCounts ==
    [][SchedulerInvokes =>
         /\ settings.auto_scan = "1"
         /\ (result.proc = "req" /\ result.scan_id # 0) =>
               clock - scans[result.scan_id].started_at >= IntervalSeconds]_vars

\* C20 (as claimed): a settings request with a non-numeric interval changes
\* neither setting, and the stored interval is always within [2,180].
C20_RejectedUnchanged ==
    [][/\ \A a \in AutoScanInputs, i \in IntervalInputs :
            (UpdateSettings(a, i) /\ i.given /\ ~i.numeric)
               => settings' = settings
       /\ settings'.interval_minutes \in MIN_INTERVAL..MAX_INTERVAL]_vars

(***************************************************************************)
(* audit entries and bookkeeping of scan_now                               *)
(***************************************************************************)
\* C21 (as claimed): an audit entry whose close has been committed is not
\* modified by any later step; in particular an entry closed as succeeded
\* is never rewritten as failed.
C21_ClosedOnce ==
    [][\A id \in DOMAIN scans :
         (scans[id].finished_at # 0 /\ ~tx.open)
            => /\ id \in DOMAIN scans'
               /\ scans'[id] = scans[id]]_vars

\* C26 (as claimed): the last-run bookkeeping, LAST_AUTO_SCAN_AT and the
\* setting last_scan_time, changes only in the step in which a scan
\* returns success; an attempt that is rejected as busy, finds no
\* keywords or fails unexpectedly leaves both as they were.
C26_BookkeepingOnSuccess ==
    [][(\/ LAST_AUTO_SCAN_AT' # LAST_AUTO_SCAN_AT
        \/ settings'.last_scan_time # settings.last_scan_time)
         => \E p \in Procs :
               /\ pc[p] = "bookkeep"
               /\ pc'[p] = "idle"
               /\ result'.proc = p
               /\ result'.kind = "ok"]_vars

\* the links of the gathered candidates, and the last candidate of a link
GatheredLinks == {loc.gathered[j].link : j \in DOMAIN loc.gathered}
LastOf(l) ==
    loc.gathered[CHOOSE j \in DOMAIN loc.gathered :
                    /\ loc.gathered[j].link = l
                    /\ \A k \in DOMAIN loc.gathered :
                          loc.gathered[k].link = l => k <= j]
ScoreOf(item) ==
    calc_trend_score(item.title, item.keyword, item.published_at, loc.trends,
                     DensityGet(loc.keyword_density, item.keyword), clock)

\* thread p closes its audit entry as succeeded in this step
ClosesSucceeded(p) == pc[p] = "process" /\ pc'[p] = "bookkeep"

\* C27: when a scan closes its audit entry as succeeded, the news table
\* has grown since the scan began by exactly the entry's new_articles,
\* which counts each gathered link that was not stored before once, while
\* total_articles counts every gathered candidate, so new_articles <=
\* total_articles; the record of every gathered link carries the keyword
\* and the score of the last candidate gathered with that link.
C27_GrowthAndCounts ==
    [][\A p \in Procs : ClosesSucceeded(p) =>
         LET e == scans'[loc.scan_id]
             fresh == {l \in GatheredLinks :
                         \A r \in 1..loc.newsBefore : news[r].link # l}
         IN  /\ e.success = 1
             /\ Len(news') = loc.newsBefore + e.new_articles
             /\ e.new_articles = Cardinality(fresh)
             /\ e.total_articles = Len(loc.gathered)
             /\ e.new_articles <= e.total_articles
             /\ \A l \in GatheredLinks :
                   \E r \in DOMAIN news' :
                      /\ news'[r].link = l
                      /\ news'[r].keyword = LastOf(l).keyword
                      /\ news'[r].trend_score = ScoreOf(LastOf(l)).score
                      /\ news'[r].trend_signal = ScoreOf(LastOf(l)).signal]_vars

\* C27 witness: a scan that gathered the same link under its two keywords
\* has closed its entry with one new article and two processed, and the
\* record carries the second candidate's keyword and score, which is not
\* the first candidate's.
C27_Witness ==
    \E p \in Procs :
        /\ pc[p] = "bookkeep"
        /\ acquired = 1
        /\ Len(loc.gathered) = 2
        /\ loc.gathered[1].link = loc.gathered[2].link
        /\ loc.gathered[1].keyword # loc.gathered[2].keyword
        /\ scans[loc.scan_id].new_articles = 1
        /\ scans[loc.scan_id].total_articles = 2
        /\ Len(news) = 1
        /\ news[1].keyword = loc.gathered[2].keyword
        /\ news[1].trend_score = ScoreOf(loc.gathered[2]).score
        /\ news[1].trend_score # ScoreOf(loc.gathered[1]).score

\* the failure handler of thread p ends in this step
HandlerEnds(p) == pc[p] = "except" /\ pc'[p] = "idle"

\* C28 (as claimed): when the failure handler returns the failure after
\* candidates were processed, the news table is as the candidates left it
\* and the audit entry is closed as failed with the error text and both
\* counts 0.
C28_Original ==
    [][\A p \in Procs :
         (HandlerEnds(p) /\ result'.kind = "error" /\ loc.i > 1) =>
         /\ news' = news
         /\ scans'[loc.scan_id].finished_at # 0
         /\ scans'[loc.scan_id].success = 0
         /\ scans'[loc.scan_id].error = loc.exc
         /\ scans'[loc.scan_id].new_articles = 0
         /\ scans'[loc.scan_id].total_articles = 0]_vars

\* C28 (amended): when the failure handler's own UPDATE and commit succeed,
\* the call returns the failure, the transaction is committed with the
\* news table as the processed candidates left it (the records the scan
\* inserted included), and the audit entry gets finished_at, success 0 and
\* the error text while its counts stay as they were: 0 unless the success
\* UPDATE had already been executed.  When the handler's statements raise,
\* the exception leaves scan_now and the open transaction is rolled back.
C28_HandlerCommits ==
    [][\A p \in Procs : HandlerEnds(p) =>
         IF result'.kind = "error"
         THEN /\ news' = news
              /\ ~tx'.open
              /\ Len(news') = loc.newsBefore + loc.new_articles
              /\ scans' = [scans EXCEPT ![loc.scan_id] =
                             [@ EXCEPT !.finished_at = clock, !.success = 0,
                                       !.error = loc.exc]]
              /\ loc.exc # ""
              /\ scans[loc.scan_id].finished_at = 0 =>
                    /\ scans'[loc.scan_id].new_articles = 0
                    /\ scans'[loc.scan_id].total_articles = 0
              /\ scans[loc.scan_id].finished_at # 0 =>
                    /\ scans'[loc.scan_id].new_articles = loc.new_articles
                    /\ scans'[loc.scan_id].total_articles = loc.total_processed
         ELSE /\ result'.kind = "raised"
              /\ ~tx'.open
              /\ news' = IF tx.open THEN tx.news ELSE news
              /\ scans' = IF tx.open THEN tx.scans ELSE scans]_vars

\* C28 witness: a scan that had inserted a record failed, its handler
\* returned the failure, and the record is stored and committed while the
\* entry is closed as failed with both counts 0.
C28_Witness ==
    /\ result.kind = "error"
    /\ result.newArticles >= 1
    /\ acquired = 1
    /\ ~tx.open
    /\ Len(news) = result.newArticles
    /\ scans[result.scan_id].finished_at # 0
    /\ scans[result.scan_id].success = 0
    /\ scans[result.scan_id].error = "db"
    /\ scans[result.scan_id].new_articles = 0
    /\ scans[result.scan_id].total_articles = 0

(***************************************************************************)
(* the scoring reference                                                   *)
(***************************************************************************)
\* floor(45 - 3.5 x ageHours), at least 0, for an age in seconds
RefRecency(ageSeconds) ==
    Max(0, 45 - ((7 * ageSeconds + 7199) \div 7200))

\* the age the reference uses: now - publishedAt, at least 0; a candidate
\* without a publish date counts as published now
RefAge(published_at, now) ==
    IF published_at.fmt \in {"rfc", "iso"} THEN Max(0, now - published_at.at) ELSE 0

RefScore(title, keyword, published_at, trends, density, now) ==
    LET kw == normalize_text(keyword)
        hit == \E i \in DOMAIN trends : PhraseMatches(trends[i], title)
    IN  Max(0, Min(100,
            RefRecency(RefAge(published_at, now))
            + (IF kw # <<>> /\ Contains(normalize_text(title), kw) THEN 20 ELSE 0)
            + (IF hit THEN 25 ELSE 0)
            + Min(20, 2 * density)))

\* C22 (as claimed): every score calc_trend_score returns is the
\* reference's score for the same title, keyword, publish time, trending
\* phrases and density.
C22_EqualsReference ==
    output.kind = "score" =>
        output.score = RefScore(input.title, input.keyword, input.published_at,
                                input.trends, input.keyword_density, input.now)

(***************************************************************************)
(* the interest-series result                                              *)
(***************************************************************************)
\* C24: the result of build_last_hour_trends has exactly one item for
\* every requested keyword, its items are in descending order of
\* latest_index and, among equal latest_index, of avg_20m, and an item
\* with an empty series has latest_index 0 and all three aggregates 0.
C24_SeriesOrder ==
    output.kind = "series" =>
        LET items == output.value.items
        IN  /\ Len(items) = Len(input.keywords)
            /\ \A i \in DOMAIN input.keywords :
                  \E j \in DOMAIN items :
                     /\ items[j].keyword = input.keywords[i]
                     /\ \A k \in DOMAIN items :
                           items[k].keyword = input.keywords[i] => k = j
            /\ \A j, k \in DOMAIN items :
                  j < k =>
                     \/ items[j].latest_index > items[k].latest_index
                     \/ /\ items[j].latest_index = items[k].latest_index
                        /\ items[j].avg_20m >= items[k].avg_20m
            /\ \A j \in DOMAIN items :
                  items[j].points = <<>> =>
                     /\ items[j].latest_index = 0
                     /\ items[j].avg_60m = 0
                     /\ items[j].avg_20m = 0
                     /\ items[j].delta_20m = 0

\* C24 witness: ten keywords, the first batch resolved and the second
\* failed; the result begins with the keyword of the highest latest_index,
\* which was not requested first among its equals, holds two items of
\* equal latest_index and different avg_20m in that order, and ends with
\* an item of an empty series.
C24_Witness ==
    /\ output.kind = "series"
    /\ Len(input.keywords) = 10
    /\ BatchResolves(input.ups[1])
    /\ BatchFails(input.ups[2])
    /\ LET items == output.value.items
       IN  /\ Len(items) = 10
           /\ items[1].latest_index = 9
           /\ items[3].keyword = input.keywords[8]
           /\ items[3].latest_index = items[4].latest_index
           /\ items[3].avg_20m > items[4].avg_20m
           /\ items[10].points = <<>>

(***************************************************************************)
(* the interest-index cache: its key and its concurrent callers            *)
(***************************************************************************)
\* list b is list a permuted, up to case and whitespace of its keywords
Variant(a, b) ==
    /\ Len(a) = Len(b)
    /\ \E f \in [DOMAIN a -> DOMAIN b] :
          /\ \A i, j \in DOMAIN a : f[i] = f[j] => i = j
          /\ \A i \in DOMAIN a : normalize_text(a[i]) = normalize_text(b[f[i]])

\* the value was computed for list a: one item for each of its keywords
ComputedFor(data, a) ==
    /\ Len(data.items) = Len(a)
    /\ {data.items[i].keyword : i \in DOMAIN data.items} = {a[i] : i \in DOMAIN a}

\* the value that belongs to the request for list kws
BelongsTo(data, kws) ==
    \E a \in TrendsKeywords : Variant(a, kws) /\ ComputedFor(data, a)

\* the cache slot holds, under the key of a variant of kws, the value that
\* was computed for that variant
SlotHolds(kws) ==
    \E a \in TrendsKeywords :
        /\ Variant(a, kws)
        /\ TRENDS_CACHE.sig = TrendsSig(a)
        /\ ComputedFor(TRENDS_CACHE.data, a)

\* C23: while the cache holds the value computed for a keyword list, a
\* call without forced refresh for a list that is a permutation of it, or
\* differs from it only in case and whitespace, finds its own key in the
\* cache, and if it is made less than the ttl after the stored timestamp
\* it returns that value and sends no request to the service.
C23_SameEntry ==
    [][\A t \in Readers :
         /\ \A kws \in TrendsKeywords :
               (TrendsBegin(t, kws, FALSE) /\ SlotHolds(kws)) =>
                  /\ At(t, "trends", "checkTs")'
                  /\ upstream' = upstream
                  /\ TRENDS_CACHE' = TRENDS_CACHE
         /\ (/\ At(t, "trends", "checkTs")
             /\ call'[t] # call[t]
             /\ SlotHolds(call[t].arg)
             /\ call[t].now_ts - TRENDS_CACHE.ts < TRENDS_TTL)
               => /\ At(t, "trends", "readData")'
                  /\ upstream' = upstream
         /\ (/\ At(t, "trends", "readData")
             /\ call'[t] # call[t]
             /\ SlotHolds(call[t].arg))
               => /\ output' = Returned(t, "trends", TRUE, FALSE, TRENDS_CACHE.data)
                  /\ BelongsTo(output'.value, call[t].arg)
                  /\ upstream' = upstream
                  /\ TRENDS_CACHE' = TRENDS_CACHE]_vars

\* C23 witness: a call for the list ("Ab ", "cc") made half a ttl after
\* the only build, which was for ("cc", "ab"), has found its key and a
\* fresh timestamp and is about to return the value of that build.
C23_Witness ==
    \E t \in Readers :
        /\ At(t, "trends", "readData")
        /\ call[t].arg = << <<"A", "b", " ">>, K2 >>
        /\ ComputedFor(TRENDS_CACHE.data, <<K2, K1>>)
        /\ TRENDS_CACHE.ts = CacheStart
        /\ call[t].now_ts = CacheStart + TRENDS_TTL \div 2
        /\ upstream = 2
        /\ \A u \in Readers \ {t} : call[u] = NoCall

\* C25 (as claimed): the value a call returns from the cache, having found
\* its own key and a fresh timestamp there, was computed for the keyword
\* set it requested.
C25_ReadsOwnData ==
    [][\A t \in Readers :
         (At(t, "trends", "readData") /\ call'[t] = NoCall)
            => BelongsTo(output'.value, call[t].arg)]_vars

====
